---- MODULE Spec2Model ----
(***************************************************************************)
(* Model of the rancher-ai-ui settings form (AIAgentSettings.vue), the     *)
(* model-list request of useChatApiComposable.ts and the settings page     *)
(* binding that feeds the form its value.                                  *)
(*                                                                         *)
(* Strings are kept as strings.  A settings record is a function from the  *)
(* Settings keys to strings; a key that is absent in the JavaScript object *)
(* is the empty string here (both are falsy, and the code only tests       *)
(* truthiness).                                                            *)
(***************************************************************************)
EXTENDS Integers, Sequences, FiniteSets, TLC

(***************************************************************************)
(* Bounds of the model.                                                    *)
(***************************************************************************)
\* User-initiated events (clicks and keystrokes) in one run.
MaxEdits == 2
\* Model-list requests issued in one run.
MaxFetches == 3

(***************************************************************************)
(* LLMProvider / ChatBotEnum values.  The enum itself lives in             *)
(* pkg/rancher-ai-ui/types, its four members are the ones the form names.  *)
(***************************************************************************)
Local == "ollama"
OpenAI == "openai"
Gemini == "gemini"
Bedrock == "bedrock"

ChatBotEnum == {Local, OpenAI, Gemini, Bedrock}

(***************************************************************************)
(* Settings enum (keys of the form record).                                *)
(***************************************************************************)
GOOGLE_API_KEY == "GOOGLE_API_KEY"
LANGFUSE_HOST == "LANGFUSE_HOST"
LANGFUSE_PUBLIC_KEY == "LANGFUSE_PUBLIC_KEY"
LANGFUSE_SECRET_KEY == "LANGFUSE_SECRET_KEY"
OLLAMA_MODEL == "OLLAMA_MODEL"
GEMINI_MODEL == "GEMINI_MODEL"
OPENAI_MODEL == "OPENAI_MODEL"
BEDROCK_MODEL == "BEDROCK_MODEL"
OLLAMA_URL == "OLLAMA_URL"
OPENAI_THIRD_PARTY_URL == "OPENAI_URL"
OPENAI_API_KEY == "OPENAI_API_KEY"
ACTIVE_CHATBOT == "ACTIVE_LLM"
AWS_REGION == "AWS_REGION"
AWS_BEARER_TOKEN_BEDROCK == "AWS_BEARER_TOKEN_BEDROCK"

Settings ==
  { GOOGLE_API_KEY, LANGFUSE_HOST, LANGFUSE_PUBLIC_KEY, LANGFUSE_SECRET_KEY,
    OLLAMA_MODEL, GEMINI_MODEL, OPENAI_MODEL, BEDROCK_MODEL, OLLAMA_URL,
    OPENAI_THIRD_PARTY_URL, OPENAI_API_KEY, ACTIVE_CHATBOT, AWS_REGION,
    AWS_BEARER_TOKEN_BEDROCK }

\* ValidationStatus
VALIDATING == "validating"
SUCCESS == "success"
ERROR == "error"

\* t('aiConfig.form.validation.failed', {}, true): the fallback error text.
ValidationFailedLabel == "aiConfig.form.validation.failed"

(***************************************************************************)
(* Pure functions of AIAgentSettings.vue.                                  *)
(***************************************************************************)
\* String.prototype.toUpperCase on the provider strings that occur.
ToUpperCase(s) ==
  CASE s = "ollama" -> "OLLAMA"
    [] s = "openai" -> "OPENAI"
    [] s = "gemini" -> "GEMINI"
    [] s = "bedrock" -> "BEDROCK"
    [] OTHER -> s

\* Settings[`${ chatbot.toUpperCase() }_MODEL`]: the enum member of that name,
\* "undefined" when the enum has none.
getModelKey(chatbot) ==
  LET up == ToUpperCase(chatbot)
  IN  CASE up = "OLLAMA" -> OLLAMA_MODEL
        [] up = "OPENAI" -> OPENAI_MODEL
        [] up = "GEMINI" -> GEMINI_MODEL
        [] up = "BEDROCK" -> BEDROCK_MODEL
        [] OTHER -> "undefined"

\* form[key] with JavaScript's undefined read as the empty string.
Get(form, key) == IF key \in DOMAIN form THEN form[key] ELSE ""

\* The order in which getActiveChatbot searches the known providers.
KnownChatbots == <<Gemini, OpenAI, Local, Bedrock>>

\* A slip in the search: the element after the match is returned.
getActiveChatbot_offByOne(value) ==
  LET hits == { i \in 1..Len(KnownChatbots) : KnownChatbots[i] = value[ACTIVE_CHATBOT] }
  IN  IF hits # {}
        THEN KnownChatbots[((CHOOSE i \in hits : TRUE) % Len(KnownChatbots)) + 1]
        ELSE IF value[AWS_BEARER_TOKEN_BEDROCK] # "" THEN Bedrock
        ELSE IF value[OPENAI_API_KEY] # "" THEN OpenAI
        ELSE IF value[GOOGLE_API_KEY] # "" THEN Gemini
        ELSE Local

\* A slip in the fallback order: Gemini is tried before OpenAI.
getActiveChatbot_geminiFirst(value) ==
  LET existing == SelectSeq(KnownChatbots, LAMBDA c : c = value[ACTIVE_CHATBOT])
  IN  IF existing # <<>> THEN Head(existing)
      ELSE IF value[AWS_BEARER_TOKEN_BEDROCK] # "" THEN Bedrock
      ELSE IF value[GOOGLE_API_KEY] # "" THEN Gemini
      ELSE IF value[OPENAI_API_KEY] # "" THEN OpenAI
      ELSE Local

getActiveChatbot(value) ==
  LET existing == SelectSeq(KnownChatbots, LAMBDA c : c = value[ACTIVE_CHATBOT])
  IN  IF existing # <<>> THEN Head(existing)
      ELSE IF value[AWS_BEARER_TOKEN_BEDROCK] # "" THEN Bedrock
      ELSE IF value[OPENAI_API_KEY] # "" THEN OpenAI
      ELSE IF value[GOOGLE_API_KEY] # "" THEN Gemini
      ELSE IF value[OLLAMA_URL] # "" THEN Local
      ELSE Local

\* The computed formData: props.value with ACTIVE_LLM resolved.
formDataComputed(propsValue) ==
  [propsValue EXCEPT ![ACTIVE_CHATBOT] = getActiveChatbot(propsValue)]

\* A slip in the Bedrock case: the region is not required.
validateSettings_noRegion(updatedForm) ==
  LET chatbot == updatedForm[ACTIVE_CHATBOT]
      credentialMissing ==
        CASE chatbot = Local -> updatedForm[OLLAMA_URL] = ""
          [] chatbot = OpenAI -> updatedForm[OPENAI_API_KEY] = ""
          [] chatbot = Gemini -> updatedForm[GOOGLE_API_KEY] = ""
          [] chatbot = Bedrock -> updatedForm[AWS_BEARER_TOKEN_BEDROCK] = ""
          [] OTHER -> FALSE
  IN  credentialMissing \/ Get(updatedForm, getModelKey(chatbot)) = ""

\* validateSettings: the hasError it emits as update:validation-error.
validateSettings(updatedForm) ==
  LET chatbot == updatedForm[ACTIVE_CHATBOT]
      credentialMissing ==
        CASE chatbot = Local -> updatedForm[OLLAMA_URL] = ""
          [] chatbot = OpenAI -> updatedForm[OPENAI_API_KEY] = ""
          [] chatbot = Gemini -> updatedForm[GOOGLE_API_KEY] = ""
          [] chatbot = Bedrock ->
               updatedForm[AWS_BEARER_TOKEN_BEDROCK] = "" \/ updatedForm[AWS_REGION] = ""
          [] OTHER -> FALSE
  IN  credentialMissing \/ Get(updatedForm, getModelKey(chatbot)) = ""

(***************************************************************************)
(* State.                                                                  *)
(***************************************************************************)
VARIABLES
  value,                    \* aiAgentSettings of the page = props.value of the form
  readOnly,                 \* props.readOnly
  formData,                 \* cached result of the computed formData (mutated in place by fetchModels)
  models,                   \* models.value: provider -> list, no entry = never fetched
  modelValidation,          \* modelValidation.value: provider -> {status, message, touched}
  requests,                 \* model-list requests whose continuation has not run yet
  llmModelsAbortController, \* id of the request the current AbortController belongs to, 0 = null
  issued,                   \* number of model-list requests issued so far (the next id is issued + 1)
  timers,                   \* per debounced function: <<last argument>> while its timer runs, else <<>>
  mounted,                  \* onMounted has run
  hasValidationErrors,      \* hasAiAgentSettingsValidationErrors of the page
  edits,                    \* number of user events so far
  hist,                     \* history: per provider the latest request issued for it and how it ended
  burst,                    \* history: per debounced function the arguments since its timer last fired
  last                      \* history: what the last step did and emitted

\* The state of the settings page (Settings.vue) and of the store behind it.
VARIABLES
  getters,                  \* the store's answers to canList and schemaFor, fixed for the session
  backend,                  \* what the store and the agent's API hold
  isLoading,                \* isLoading.value
  aiAgentDeployment,        \* aiAgentDeployment.value: <<>> is null, else <<deployment>>
  aiAgentSettings,          \* aiAgentSettings.value: <<>> is null, else <<record>>
  aiAgentConfigCRDs,        \* aiAgentConfigCRDs.value: <<>> is null, else <<list>>
  authenticationSecrets,    \* authenticationSecrets.value: agent name -> payload
  permissions,              \* permissions.value: <<>> is null, else <<record>>
  apiError,                 \* apiError.value
  hasAiAgentSettingsValidationErrors,
  hasAiAgentConfigsValidationErrors,
  pending,                  \* store lookups of onMounted and of the re-watch whose answer is awaited
  settingsFormData,         \* the local of fetchAiAgentSettings between its two awaits
  dialog,                   \* the Apply dialog: "closed", "fetchSettings" (awaited), "open"
  savePc,                   \* where save() is suspended: "idle" or the step it awaits
  pageEdits,                \* number of user events on the page so far
  saves,                    \* number of clicks on Apply so far
  log,                      \* history: the store and API operations of the page, in order
  btnCB,                    \* history: the arguments the button callback was called with
  pageLast                  \* history: what the last step of the page did

\* The state of useAIServiceComposable and of the store behind it.
VARIABLES
  svcGetters,               \* the store's answers to canList, fixed for the session
  svcStore,                 \* the agent's deployment as management/all holds it and as the
                            \* cluster does, and the llm-config secret and config map
  initiated,                \* initiated.value
  llmConfig,                \* llmConfig.value: <<>> is null, else <<config>>
  aiServiceError,           \* error.value: <<>> is null, else <<key>>
  svcMount,                 \* where onMounted is: "created", "fetchDeployments", "done", "failed"
  llmFetches,               \* the calls of fetchLLMConfigs that await a lookup
  svcIssued,                \* number of calls of fetchLLMConfigs that dispatched a lookup
  svcChanges,               \* number of changes of the store's deployments so far
  svcLast                   \* history: what the last step of the composable did

\* The state of SelectAgent.vue.
VARIABLES
  agentsProp,                 \* props.agents
  agentName,                \* props.agentName
  disabled,                 \* props.disabled
  isOpen,                   \* isOpen.value
  selectTimer,              \* debouncedSelectAgent: <<last argument>> while its timer runs, else <<>>
  selectEmitted,            \* the payload of the last select event: <<>> when none was emitted
  selLast                   \* history: what the last step of the component did

formVars ==
  << value, readOnly, formData, models, modelValidation, requests,
     llmModelsAbortController, issued, timers, mounted, hasValidationErrors,
     edits, hist, burst, last >>

pageVars ==
  << getters, backend, isLoading, aiAgentDeployment, aiAgentSettings, aiAgentConfigCRDs,
     authenticationSecrets, permissions, apiError, hasAiAgentSettingsValidationErrors,
     hasAiAgentConfigsValidationErrors, pending, settingsFormData, dialog, savePc,
     pageEdits, saves, log, btnCB, pageLast >>

svcVars ==
  << svcGetters, svcStore, initiated, llmConfig, aiServiceError, svcMount, llmFetches,
     svcIssued, svcChanges, svcLast >>

selVars == << agentsProp, agentName, disabled, isOpen, selectTimer, selectEmitted, selLast >>

vars == << formVars, pageVars, svcVars, selVars >>

\* The three debounced edit paths.
DebouncedFns == {"updateOllamaUrlValue", "updateBedrockTokenValue", "updateBedrockRegion"}

\* Values the user types or picks.
EditVals == {"", "b"}
\* Values typed into the advanced fields (OpenAI URL, Langfuse).
AdvancedVals == {"b"}
\* Model lists the backend returns.
ModelLists == { <<>>, <<"m1", "m2">>, <<"m2">> }
\* `detail` of a non-2xx body; "" stands for a body without detail.
Details == {"", "boom"}

EmptyForm == [k \in Settings |-> ""]

\* Values the page hands to the form when it renders it.
InitValues ==
  { EmptyForm,
    [EmptyForm EXCEPT ![ACTIVE_CHATBOT] = Local, ![OLLAMA_URL] = "a", ![OLLAMA_MODEL] = "m1"],
    [EmptyForm EXCEPT ![OPENAI_API_KEY] = "a", ![GOOGLE_API_KEY] = "a"],
    [EmptyForm EXCEPT ![ACTIVE_CHATBOT] = Bedrock, ![AWS_BEARER_TOKEN_BEDROCK] = "a",
                      ![AWS_REGION] = "a", ![BEDROCK_MODEL] = "m1"],
    [EmptyForm EXCEPT ![ACTIVE_CHATBOT] = Bedrock, ![AWS_BEARER_TOKEN_BEDROCK] = "a"],
    [EmptyForm EXCEPT ![ACTIVE_CHATBOT] = "BEDROCK", ![OLLAMA_URL] = "a"] }

NoStep == [op |-> "init", key |-> "", val |-> "", emitted |-> <<>>, verrs |-> <<>>,
           fetched |-> <<>>, settled |-> <<>>, calls |-> <<>>]

(***************************************************************************)
(* Helpers of the form.                                                    *)
(***************************************************************************)
First(list) == IF list = <<>> THEN "" ELSE list[1]

\* models.value[chatbot]?.[0], "" for undefined
FirstModel(mods, chatbot) == IF chatbot \in DOMAIN mods THEN First(mods[chatbot]) ELSE ""

\* models.value[chatbot] = list
SetModels(mods, chatbot, list) ==
  [c \in (DOMAIN mods) \cup {chatbot} |-> IF c = chatbot THEN list ELSE mods[c]]

\* A slip: a payload without message keeps the old message.
updateModelValidation_keepMessage(mv, key, payload) ==
  [mv EXCEPT ![key] =
     [ status  |-> IF "status" \in DOMAIN payload THEN payload.status ELSE mv[key].status,
       message |-> IF "message" \in DOMAIN payload THEN payload.message ELSE mv[key].message,
       touched |-> IF "touched" \in DOMAIN payload THEN payload.touched ELSE mv[key].touched ]]

updateModelValidation(mv, key, payload) ==
  [mv EXCEPT ![key] =
     [ status  |-> IF "status" \in DOMAIN payload THEN payload.status ELSE mv[key].status,
       message |-> IF "message" \in DOMAIN payload THEN payload.message ELSE "",
       touched |-> IF "touched" \in DOMAIN payload THEN payload.touched ELSE mv[key].touched ]]

\* The switch at the head of fetchModels: the options bag of the request.
chatbotOptions(chatbot, options, form) ==
  [ url |-> IF chatbot = Local
              THEN (IF "url" \in DOMAIN options THEN options.url ELSE form[OLLAMA_URL])
              ELSE "",
    bearerToken |-> IF chatbot = Bedrock
              THEN (IF "bearerToken" \in DOMAIN options THEN options.bearerToken
                    ELSE form[AWS_BEARER_TOKEN_BEDROCK])
              ELSE "",
    region |-> IF chatbot = Bedrock
              THEN (IF "region" \in DOMAIN options THEN options.region ELSE form[AWS_REGION])
              ELSE "" ]

\* AbortController.abort(): the request the controller belongs to, if its
\* continuation has not run, is rejected with AbortError.
Abort(reqs, ctrl) ==
  { IF r.id = ctrl /\ r.state = "pending" THEN [r EXCEPT !.state = "aborted"] ELSE r : r \in reqs }

\* A slip: the previous request is not aborted.
fetchLLMModels_noAbort(reqs, ctrl, id, name, options) ==
  reqs \cup { [ id |-> id, name |-> name, url |-> options.url, region |-> options.region,
                bearerToken |-> options.bearerToken, state |-> "pending" ] }

\* A slip: one controller per provider, only a request of the same provider is aborted.
fetchLLMModels_perProvider(reqs, ctrl, id, name, options) ==
  { IF r.name = name /\ r.state = "pending" THEN [r EXCEPT !.state = "aborted"] ELSE r : r \in reqs }
    \cup { [ id |-> id, name |-> name, url |-> options.url, region |-> options.region,
             bearerToken |-> options.bearerToken, state |-> "pending" ] }

\* fetchLLMModels up to `await fetch(...)`: aborts the previous request and
\* issues the new one with its query parameters.
fetchLLMModels(reqs, ctrl, id, name, options) ==
  Abort(reqs, ctrl)
    \cup { [ id |-> id, name |-> name, url |-> options.url, region |-> options.region,
             bearerToken |-> options.bearerToken, state |-> "pending" ] }

\* A slip: AbortError is handled like any other failure.
fetchModelsCatch_noAbortCase(mv, form, chatbot, error) ==
  LET mv1 == updateModelValidation(mv, chatbot,
               [ status |-> ERROR,
                 message |-> IF error.message # "" THEN error.message ELSE ValidationFailedLabel ])
  IN  [ mv |-> mv1,
        form |-> IF mv1[chatbot].touched THEN [form EXCEPT ![getModelKey(chatbot)] = ""] ELSE form ]

\* A slip: the model is cleared whether or not the provider was touched.
fetchModelsCatch_alwaysClear(mv, form, chatbot, error) ==
  IF error.name = "AbortError"
    THEN [ mv |-> updateModelValidation(mv, chatbot, [status |-> VALIDATING]), form |-> form ]
    ELSE [ mv |-> updateModelValidation(mv, chatbot,
                    [ status |-> ERROR,
                      message |-> IF error.message # "" THEN error.message ELSE ValidationFailedLabel ]),
           form |-> [form EXCEPT ![getModelKey(chatbot)] = ""] ]

\* The catch block of fetchModels.
fetchModelsCatch(mv, form, chatbot, error) ==
  IF error.name = "AbortError"
    THEN [ mv |-> updateModelValidation(mv, chatbot, [status |-> VALIDATING]), form |-> form ]
    ELSE LET mv1 == updateModelValidation(mv, chatbot,
                      [ status |-> ERROR,
                        message |-> IF error.message # "" THEN error.message
                                    ELSE ValidationFailedLabel ])
         IN  [ mv |-> mv1,
               form |-> IF mv1[chatbot].touched
                          THEN [form EXCEPT ![getModelKey(chatbot)] = ""] ELSE form ]

\* The form fetchModels hands to validateSettings after the try/catch.
fetchModelsValidated(form, mods, chatbot) ==
  [form EXCEPT ![getModelKey(chatbot)] =
     IF FirstModel(mods, chatbot) # "" THEN FirstModel(mods, chatbot) ELSE form[getModelKey(chatbot)]]

\* A slip: the first returned model replaces a model that was already selected.
updateFormConfig_overwrites(form, mods, mv, chatbot) ==
  LET modelKey == getModelKey(chatbot)
      modelField == IF FirstModel(mods, chatbot) # "" THEN FirstModel(mods, chatbot) ELSE form[modelKey]
  IN  IF modelField # ""
        THEN [form EXCEPT ![modelKey] =
                IF mv[chatbot].status = SUCCESS THEN modelField ELSE form[modelKey]]
        ELSE form

updateFormConfig(form, mods, mv, chatbot) ==
  LET modelKey == getModelKey(chatbot)
      modelField == IF form[modelKey] # "" THEN form[modelKey] ELSE FirstModel(mods, chatbot)
  IN  IF modelField # ""
        THEN [form EXCEPT ![modelKey] =
                IF mv[chatbot].status = SUCCESS THEN modelField ELSE form[modelKey]]
        ELSE form

\* A slip: the validator is run on the form before the edit.
updateValue_validatesOld(form, key, val) ==
  [ emitted |-> [form EXCEPT ![key] = val], hasError |-> validateSettings(form) ]

\* A slip: the snapshot is taken from an empty record instead of the form.
updateValue_dropsOthers(form, key, val) ==
  LET newValue == [EmptyForm EXCEPT ![ACTIVE_CHATBOT] = form[ACTIVE_CHATBOT], ![key] = val]
  IN  [ emitted |-> newValue, hasError |-> validateSettings(newValue) ]

\* updateValue: the snapshot it emits as update:value and the hasError it
\* emits as update:validation-error.
updateValue(form, key, val) ==
  LET newValue == [form EXCEPT ![key] = val]
  IN  [ emitted |-> newValue, hasError |-> validateSettings(newValue) ]

chatbotConfigKey(form) ==
  CASE form[ACTIVE_CHATBOT] = OpenAI -> OPENAI_API_KEY
    [] form[ACTIVE_CHATBOT] = Gemini -> GOOGLE_API_KEY
    [] form[ACTIVE_CHATBOT] = Bedrock -> AWS_BEARER_TOKEN_BEDROCK
    [] OTHER -> OLLAMA_URL

isModelsLoading == modelValidation[formData[ACTIVE_CHATBOT]].status = VALIDATING

isModelsAvailable ==
  /\ ~isModelsLoading
  /\ ~( ( formData[ACTIVE_CHATBOT] \notin DOMAIN models
          \/ models[formData[ACTIVE_CHATBOT]] = <<>> )
        /\ formData[getModelKey(formData[ACTIVE_CHATBOT])] = "" )

\* v-if of the error Banner under the Ollama URL and under the Bedrock token.
\* A slip: the banner does not wait for the provider to be touched.
ErrorBannerShown_untouched(c) ==
  /\ c \in {Local, Bedrock}
  /\ formData[ACTIVE_CHATBOT] = c
  /\ modelValidation[c].status = ERROR

ErrorBannerShown(c) ==
  /\ c \in {Local, Bedrock}
  /\ formData[ACTIVE_CHATBOT] = c
  /\ modelValidation[c].touched /\ modelValidation[c].status = ERROR

(***************************************************************************)
(* Steps.  A step is one task of the UI event loop: an event handler or   *)
(* the continuation of an await, run to its next suspension point.  The    *)
(* page's update:value handler assigns aiAgentSettings inside emit; the    *)
(* form's props.value, and with it the computed formData, change when the  *)
(* page re-renders in the scheduler flush that follows the handler, so a   *)
(* handler reads the old formData after emitting and the step ends with    *)
(* the new one.                                                            *)
(***************************************************************************)
\* Promise reactions run before the next task: while a rejected (aborted)
\* request waits for its continuation no event handler runs.
Quiet == \A r \in requests : r.state # "aborted"

UserEvent == mounted /\ Quiet /\ edits < MaxEdits

Step(op, key, val, emitted, verrs, settled) ==
  [ op |-> op, key |-> key, val |-> val, emitted |-> emitted, verrs |-> verrs,
    fetched |-> IF issued' > issued THEN << CHOOSE r \in requests' : r.id = issued' >> ELSE <<>>,
    settled |-> settled, calls |-> <<>> ]

\* fetchModels up to its await: clear the cache entry, set validating, issue the request.
fetchModels(mv, chatbot, options) ==
  /\ issued < MaxFetches
  /\ models' = SetModels(models, chatbot, <<>>)
  /\ modelValidation' = updateModelValidation(mv, chatbot, [status |-> VALIDATING])
  /\ requests' = fetchLLMModels(requests, llmModelsAbortController, issued + 1, chatbot,
                                chatbotOptions(chatbot, options, formData))
  /\ llmModelsAbortController' = issued + 1
  /\ issued' = issued + 1
  /\ hist' = [hist EXCEPT ![chatbot] = [id |-> issued + 1, kind |-> "pending", list |-> <<>>, msg |-> ""]]

\* A handler path that does not reach fetchModels.
NoFetch ==
  UNCHANGED << models, modelValidation, requests, llmModelsAbortController, issued, hist >>

\* The page's handlers of update:value and update:validation-error, and the
\* re-render that hands the new value back to the form.
Emit(u) ==
  /\ value' = u.emitted
  /\ hasValidationErrors' = u.hasError
  /\ formData' = formDataComputed(u.emitted)

\* updateChatbotValue fetches only when the provider has no cache entry.
\* A slip: an empty list is treated like a missing entry.
modelsNotFetched_emptyToo(mods, val) == val \notin DOMAIN mods \/ mods[val] = <<>>

modelsNotFetched(mods, val) == val \notin DOMAIN mods

\* updateBedrockRegion fetches only when the form (before the edit reaches it) has a region.
\* A slip: the new value is tested instead.
regionWasSet_newValue(form, val) == val # ""

regionWasSet(form, val) == form[AWS_REGION] # ""

onMounted ==
  /\ ~mounted
  /\ mounted' = TRUE
  /\ IF formData[ACTIVE_CHATBOT] # ""
       THEN fetchModels(modelValidation, formData[ACTIVE_CHATBOT], <<>>)
       ELSE NoFetch
  /\ UNCHANGED << value, readOnly, formData, timers, hasValidationErrors, edits, burst >>
  /\ last' = Step("onMounted", "", "", <<>>, <<>>, <<>>)

updateChatbotValue(val) ==
  /\ UserEvent /\ ~readOnly
  /\ LET u == updateValue(formData, ACTIVE_CHATBOT, val)
     IN  /\ Emit(u)
         /\ IF modelsNotFetched(models, val)
              THEN fetchModels(modelValidation, val, <<>>)
              ELSE NoFetch
         /\ edits' = edits + 1
         /\ UNCHANGED << readOnly, timers, mounted, burst >>
         /\ last' = Step("updateChatbotValue", ACTIVE_CHATBOT, val, <<u.emitted>>, <<u.hasError>>, <<>>)

\* A slip: a call made while the timer runs is dropped (the first argument is kept).
Debounce_keepsFirst(fn, val) ==
  /\ timers' = [timers EXCEPT ![fn] = IF @ = <<>> THEN <<val>> ELSE @]
  /\ burst' = [burst EXCEPT ![fn] = Append(@, val)]
  /\ edits' = edits + 1
  /\ NoFetch
  /\ UNCHANGED << value, readOnly, formData, mounted, hasValidationErrors >>
  /\ last' = Step("call", fn, val, <<>>, <<>>, <<>>)

\* debounce(fn, 500), trailing edge only: a call (re)starts the timer and keeps
\* its argument; nothing runs until the timer elapses.
Debounce(fn, val) ==
  /\ timers' = [timers EXCEPT ![fn] = <<val>>]
  /\ burst' = [burst EXCEPT ![fn] = Append(@, val)]
  /\ edits' = edits + 1
  /\ NoFetch
  /\ UNCHANGED << value, readOnly, formData, mounted, hasValidationErrors >>
  /\ last' = Step("call", fn, val, <<>>, <<>>, <<>>)

\* The Ollama URL input (shown for the Local provider) emits update:value.
CallUpdateOllamaUrlValue(val) ==
  /\ UserEvent /\ ~readOnly
  /\ formData[ACTIVE_CHATBOT] = Local
  /\ Debounce("updateOllamaUrlValue", val)

\* The Bedrock token input (shown for Bedrock, editable once a region is set).
CallUpdateBedrockTokenValue(val) ==
  /\ UserEvent /\ ~readOnly
  /\ formData[ACTIVE_CHATBOT] = Bedrock
  /\ formData[AWS_REGION] # ""
  /\ Debounce("updateBedrockTokenValue", val)

\* The Bedrock region select (shown for Bedrock).
CallUpdateBedrockRegion(val) ==
  /\ UserEvent /\ ~readOnly
  /\ formData[ACTIVE_CHATBOT] = Bedrock
  /\ Debounce("updateBedrockRegion", val)

\* The timer of a debounced function elapses: its body runs with the last argument.
Fired(fn) ==
  /\ mounted /\ Quiet
  /\ timers[fn] # <<>>
  /\ timers' = [timers EXCEPT ![fn] = <<>>]
  /\ burst' = [burst EXCEPT ![fn] = <<>>]
  /\ UNCHANGED << readOnly, mounted, edits >>

updateOllamaUrlValue ==
  /\ Fired("updateOllamaUrlValue")
  /\ LET val == timers["updateOllamaUrlValue"][1]
         u == updateValue(formData, OLLAMA_URL, val)
     IN  /\ Emit(u)
         /\ fetchModels(updateModelValidation(modelValidation, Local, [touched |-> TRUE]),
                        Local, [url |-> val])
         /\ last' = [Step("updateOllamaUrlValue", OLLAMA_URL, val, <<u.emitted>>, <<u.hasError>>, <<>>)
                    EXCEPT !.calls = burst["updateOllamaUrlValue"]]

updateBedrockTokenValue ==
  /\ Fired("updateBedrockTokenValue")
  /\ LET val == timers["updateBedrockTokenValue"][1]
         u == updateValue(formData, AWS_BEARER_TOKEN_BEDROCK, val)
     IN  /\ Emit(u)
         /\ fetchModels(updateModelValidation(modelValidation, Bedrock, [touched |-> TRUE]),
                        Bedrock, [bearerToken |-> val])
         /\ last' = [Step("updateBedrockTokenValue", AWS_BEARER_TOKEN_BEDROCK, val, <<u.emitted>>, <<u.hasError>>, <<>>)
                    EXCEPT !.calls = burst["updateBedrockTokenValue"]]

updateBedrockRegion ==
  /\ Fired("updateBedrockRegion")
  /\ LET val == timers["updateBedrockRegion"][1]
         u == updateValue(formData, AWS_REGION, val)
     IN  /\ Emit(u)
         /\ IF regionWasSet(formData, val)
              THEN fetchModels(updateModelValidation(modelValidation, Bedrock, [touched |-> TRUE]),
                               Bedrock, [region |-> val])
              ELSE NoFetch
         /\ last' = [Step("updateBedrockRegion", AWS_REGION, val, <<u.emitted>>, <<u.hasError>>, <<>>)
                    EXCEPT !.calls = burst["updateBedrockRegion"]]

\* A slip: the Ollama URL input calls updateValue directly as well.
DirectEdits_withOllamaUrl ==
  LET active == formData[ACTIVE_CHATBOT]
  IN  ( IF active \in {OpenAI, Gemini}
          THEN { <<chatbotConfigKey(formData), v>> : v \in EditVals } ELSE {} )
      \cup ( IF active = Local
          THEN { <<OLLAMA_URL, v>> : v \in EditVals } ELSE {} )
      \cup { <<k, v>> : k \in {LANGFUSE_HOST, LANGFUSE_PUBLIC_KEY, LANGFUSE_SECRET_KEY},
                        v \in AdvancedVals }

\* The inputs of the template that call updateValue directly, with the values they can emit.
DirectEdits ==
  LET active == formData[ACTIVE_CHATBOT]
  IN  ( IF active \in {OpenAI, Gemini}
          THEN { <<chatbotConfigKey(formData), v>> : v \in EditVals } ELSE {} )
      \cup ( IF active = OpenAI
          THEN { <<OPENAI_THIRD_PARTY_URL, v>> : v \in AdvancedVals } ELSE {} )
      \cup ( IF isModelsAvailable /\ active \in DOMAIN models
          THEN { <<getModelKey(active), models[active][i]>> : i \in 1..Len(models[active]) }
          ELSE {} )
      \cup { <<k, v>> : k \in {LANGFUSE_HOST, LANGFUSE_PUBLIC_KEY, LANGFUSE_SECRET_KEY},
                        v \in AdvancedVals }

\* A slip: the inputs are live in read-only mode too.
UpdateValueInput_ignoresReadOnly(key, val) ==
  /\ UserEvent
  /\ <<key, val>> \in DirectEdits
  /\ LET u == updateValue(formData, key, val)
     IN  /\ Emit(u)
         /\ NoFetch
         /\ edits' = edits + 1
         /\ UNCHANGED << readOnly, timers, mounted, burst >>
         /\ last' = Step("updateValue", key, val, <<u.emitted>>, <<u.hasError>>, <<>>)

UpdateValueInput(key, val) ==
  /\ UserEvent /\ ~readOnly
  /\ <<key, val>> \in DirectEdits
  /\ LET u == updateValue(formData, key, val)
     IN  /\ Emit(u)
         /\ NoFetch
         /\ edits' = edits + 1
         /\ UNCHANGED << readOnly, timers, mounted, burst >>
         /\ last' = Step("updateValue", key, val, <<u.emitted>>, <<u.hasError>>, <<>>)

refreshModels ==
  /\ UserEvent
  /\ fetchModels(updateModelValidation(modelValidation, formData[ACTIVE_CHATBOT], [touched |-> TRUE]),
                 formData[ACTIVE_CHATBOT], <<>>)
  /\ edits' = edits + 1
  /\ UNCHANGED << value, readOnly, formData, timers, mounted, hasValidationErrors, burst >>
  /\ last' = Step("refreshModels", "", "", <<>>, <<>>, <<>>)

\* The tail of fetchModels after the try/catch, for the request r.
FetchModelsTail(r, mv, mods, form, outcome) ==
  /\ modelValidation' = mv
  /\ models' = mods
  /\ hasValidationErrors' = validateSettings(fetchModelsValidated(form, mods, r.name))
  /\ formData' = updateFormConfig(form, mods, mv, r.name)
  /\ requests' = requests \ {r}
  /\ hist' = IF hist[r.name].id = r.id THEN [hist EXCEPT ![r.name] = outcome] ELSE hist
  /\ UNCHANGED << value, readOnly, llmModelsAbortController, issued, timers, mounted, edits, burst >>

\* The response is 2xx with a JSON list: fetchLLMModels returns it.
FetchResolved(r, list) ==
  /\ Quiet /\ r \in requests /\ r.state = "pending"
  /\ FetchModelsTail(r,
       updateModelValidation(modelValidation, r.name, [status |-> SUCCESS]),
       SetModels(models, r.name, list), formData,
       [id |-> r.id, kind |-> "ok", list |-> list, msg |-> ""])
  /\ last' = Step("resolved", r.name, "", <<>>, <<hasValidationErrors'>>, <<r>>)

\* The response is not 2xx: fetchLLMModels throws Error(detail).
FetchRejected(r, detail) ==
  /\ Quiet /\ r \in requests /\ r.state = "pending"
  /\ LET c == fetchModelsCatch(modelValidation, formData, r.name,
                               [name |-> "Error", message |-> detail])
     IN  FetchModelsTail(r, c.mv, models, c.form,
           [id |-> r.id, kind |-> "err", list |-> <<>>, msg |-> detail])
  /\ last' = Step("rejected", r.name, detail, <<>>, <<hasValidationErrors'>>, <<r>>)

\* The request was aborted: fetch rejects with AbortError.
FetchAborted(r) ==
  /\ r \in requests /\ r.state = "aborted"
  /\ LET c == fetchModelsCatch(modelValidation, formData, r.name,
                               [name |-> "AbortError", message |-> "The operation was aborted."])
     IN  FetchModelsTail(r, c.mv, models, c.form,
           [id |-> r.id, kind |-> "aborted", list |-> <<>>, msg |-> ""])
  /\ last' = Step("aborted", r.name, "", <<>>, <<hasValidationErrors'>>, <<r>>)

(***************************************************************************)
(* The settings page: what it reads from the store on mount.               *)
(***************************************************************************)
\* Bounds of the page's behaviours: user events and clicks on Apply.
MaxPageEdits == 1

MaxSaves == 1

\* Resource types of the store.
SECRET == "secret"
CONFIG_MAP == "configmap"
DEPLOYMENT == "apps.deployment"
AI_AGENT_CONFIG == "ai.cattle.io.aiagentconfig"

NONE == "NONE"
RANCHER == "RANCHER"
BASIC == "BASIC"

\* The strings the page encodes or decodes, with their base64 form.
Base64Table ==
  { <<"", "">>, <<"a", "YQ==">>, <<"b", "Yg==">>, <<"m1", "bTE=">>, <<"openai", "b3BlbmFp">> }

base64Encode(str) == (CHOOSE p \in Base64Table : p[1] = str)[2]

\* A string that is not base64 of one of the table's strings decodes to bytes
\* that are none of them.
base64Decode(str) ==
  IF \E p \in Base64Table : p[2] = str
    THEN (CHOOSE p \in Base64Table : p[2] = str)[1]
    ELSE "?"

\* a[k] || '' of a record that may lack the key.
OrEmpty(rec, key) == IF key \in DOMAIN rec THEN rec[key] ELSE ""

\* rec[key] = val, adding the key when it is missing.
SetKey(rec, key, val) ==
  [k \in DOMAIN rec \cup {key} |-> IF k = key THEN val ELSE rec[k]]

\* The data of the llm-config secret (base64) and of the llm-config config map.
SecretDatas ==
  << <<>>,
     [ACTIVE_LLM |-> "b3BlbmFp", OPENAI_API_KEY |-> "YQ==", OPENAI_MODEL |-> "bTE="] >>

ConfigMapDatas ==
  << <<>>,
     [OPENAI_MODEL |-> "b", LANGFUSE_HOST |-> "", ENABLE_RAG |-> "a"] >>

\* The answers of the store's getters: canList per type, and schemaFor per type
\* (<<>> when there is no schema, else the schema's resourceMethods).
ResourceMethods == { <<>>, << {"GET", "PUT", "DELETE"} >> }

GetterSets ==
  [ canList : [{SECRET, AI_AGENT_CONFIG} -> BOOLEAN],
    schemaFor : [{SECRET, AI_AGENT_CONFIG} -> ResourceMethods] ]

\* schema?.resourceMethods.find((verb) => 'PUT' === verb), as a boolean.
canPut(schema) == schema # <<>> /\ "PUT" \in schema[1]

fetchPermissions(g) ==
  [ list   |-> [ canListSecrets |-> g.canList[SECRET],
                 canListAiAgentCRDS |-> g.canList[AI_AGENT_CONFIG] ],
    create |-> [ canCreateSecrets |-> canPut(g.schemaFor[SECRET]),
                 canCreateAiAgentCRDS |-> canPut(g.schemaFor[AI_AGENT_CONFIG]) ] ]

\* A slip: any permission of the group stands for the one that is asked.
Perm_anyOfGroup(perms, group, name) ==
  perms # <<>> /\ \E n \in DOMAIN perms[1][group] : perms[1][group][n]

\* permissions?.value?.<group>.<name> of a permissions ref that may be null.
Perm(perms, group, name) == perms # <<>> /\ perms[1][group][name]

\* An agent-config resource: metadata.name and the fields of spec the page reads
\* or writes (authenticationSecret: <<>> when the field is absent).
Crd(name, builtIn, enabled, description, authenticationType, authenticationSecret) ==
  [ name |-> name,
    spec |-> [ builtIn |-> builtIn, enabled |-> enabled, description |-> description,
               authenticationType |-> authenticationType,
               authenticationSecret |-> authenticationSecret ] ]

\* The agent-config resources the store may hold when the page opens.
CrdStores ==
  { << Crd("a1", TRUE, TRUE, "d", RANCHER, <<"s1">>) >>,
    << Crd("a1", FALSE, TRUE, "d", BASIC, <<"s1">>), Crd("a2", FALSE, FALSE, "d", NONE, <<>>) >> }

\* The store and the agent's API when the page opens: nothing saved yet.
Backends ==
  { [ secret |-> SecretDatas[i], configMap |-> ConfigMapDatas[i], crds |-> crds,
      saved |-> <<>>, authSecrets |-> {}, restarts |-> 0 ] :
      i \in 1..Len(SecretDatas), crds \in CrdStores }

\* How a lookup in the store can end: the resource, a rejection, or nothing.
FindOutcomes == {"found", "rejects", "null"}

FindAllOutcomes == {"found", "rejects"}

NoPageStep == [op |-> "created", outcome |-> "", failed |-> FALSE]

PageStep(op, outcome) == [op |-> op, outcome |-> outcome, failed |-> FALSE]

\* The refs of the page as its setup leaves them.
PageConstructed ==
  /\ isLoading = TRUE
  /\ aiAgentDeployment = <<>>
  /\ aiAgentSettings = <<>>
  /\ aiAgentConfigCRDs = <<>>
  /\ authenticationSecrets = <<>>
  /\ permissions = <<>>
  /\ apiError = ""
  /\ hasAiAgentSettingsValidationErrors = FALSE
  /\ hasAiAgentConfigsValidationErrors = FALSE
  /\ pending = {}
  /\ settingsFormData = <<>>
  /\ dialog = "closed"
  /\ savePc = [at |-> "idle", payload |-> <<>>]
  /\ pageEdits = 0
  /\ saves = 0
  /\ log = <<>>
  /\ btnCB = <<>>
  /\ pageLast = NoPageStep

\* The page is not looked at: the form's specifications leave it as constructed.
PageUntouched ==
  /\ PageConstructed
  /\ getters = [ canList |-> [t \in {SECRET, AI_AGENT_CONFIG} |-> TRUE],
                 schemaFor |-> [t \in {SECRET, AI_AGENT_CONFIG} |-> << {"GET", "PUT", "DELETE"} >>] ]
  /\ backend = [ secret |-> <<>>, configMap |-> <<>>, crds |-> <<>>,
                 saved |-> <<>>, authSecrets |-> {}, restarts |-> 0 ]

\* onMounted up to its await: fetchAiAgentDeployment dispatches the lookup.
SettingsOnMounted ==
  /\ isLoading /\ pending = {}
  /\ pending' = {DEPLOYMENT}
  /\ log' = Append(log, "find deployment")
  /\ pageLast' = PageStep("onMounted", "")
  /\ UNCHANGED << getters, backend, isLoading, aiAgentDeployment, aiAgentSettings,
                  aiAgentConfigCRDs, authenticationSecrets, permissions, apiError,
                  hasAiAgentSettingsValidationErrors, hasAiAgentConfigsValidationErrors,
                  settingsFormData, dialog, savePc, pageEdits, saves, btnCB >>
  /\ UNCHANGED formVars /\ UNCHANGED svcVars /\ UNCHANGED selVars

\* What fetchAiAgentDeployment returns for an outcome of its lookup.
fetchAiAgentDeployment_ignoresNull(outcome) == IF outcome = "rejects" THEN <<>> ELSE << DEPLOYMENT >>

fetchAiAgentDeployment(outcome) == IF outcome = "found" THEN << DEPLOYMENT >> ELSE <<>>

\* The lookups onMounted starts once the permissions are known.
MountFetches_ignoresPermissions(perms) == {SECRET, AI_AGENT_CONFIG}

MountFetches(perms) ==
  (IF Perm(perms, "list", "canListSecrets") THEN {SECRET} ELSE {})
    \cup (IF Perm(perms, "list", "canListAiAgentCRDS") THEN {AI_AGENT_CONFIG} ELSE {})

LogFinds(lg, types) ==
  LET l1 == IF SECRET \in types THEN Append(lg, "find secret") ELSE lg
  IN  IF AI_AGENT_CONFIG \in types THEN Append(l1, "findAll aiagentconfig") ELSE l1

\* The rest of onMounted, once the deployment lookup has ended.
FetchedDeployment(outcome) ==
  /\ DEPLOYMENT \in pending
  /\ aiAgentDeployment' = fetchAiAgentDeployment(outcome)
  /\ isLoading' = FALSE
  /\ IF aiAgentDeployment' = <<>>
       THEN /\ pending' = {}
            /\ UNCHANGED << permissions, log >>
       ELSE /\ permissions' = << fetchPermissions(getters) >>
            /\ pending' = MountFetches(permissions')
            /\ log' = LogFinds(log, pending')
  /\ pageLast' = PageStep("FetchedDeployment", outcome)
  /\ UNCHANGED << getters, backend, aiAgentSettings, aiAgentConfigCRDs, authenticationSecrets,
                  apiError, hasAiAgentSettingsValidationErrors,
                  hasAiAgentConfigsValidationErrors, settingsFormData, dialog, savePc,
                  pageEdits, saves, btnCB >>
  /\ UNCHANGED formVars /\ UNCHANGED svcVars /\ UNCHANGED selVars

\* A slip: the data is used whatever the outcome of the lookup.
FoundData_ignoresOutcome(outcome, data) == data

\* secret?.data || {} and configMap?.data || {} for an outcome of the lookup.
FoundData(outcome, data) == IF outcome = "found" THEN data ELSE <<>>

\* The first loop of fetchAiAgentSettings: every entry of the secret, decoded.
DecodeSecretEntries_raw(form, data) ==
  [k \in DOMAIN form \cup DOMAIN data |-> IF k \in DOMAIN data THEN data[k] ELSE form[k]]

DecodeSecretEntries(form, data) ==
  [k \in DOMAIN form \cup DOMAIN data |->
     IF k \in DOMAIN data THEN base64Decode(data[k]) ELSE form[k]]

\* The second loop: every entry of the config map, as it is.
CopyConfigMapEntries(form, data) ==
  [k \in DOMAIN form \cup DOMAIN data |-> IF k \in DOMAIN data THEN data[k] ELSE form[k]]

\* fetchAiAgentSettings after the secret lookup: decode, then look up the config map.
FetchedSecret(outcome) ==
  /\ SECRET \in pending
  /\ settingsFormData' = DecodeSecretEntries(<<>>, FoundData(outcome, backend.secret))
  /\ pending' = (pending \ {SECRET}) \cup {CONFIG_MAP}
  /\ log' = Append(log, "find configmap")
  /\ pageLast' = PageStep("FetchedSecret", outcome)
  /\ UNCHANGED << getters, backend, isLoading, aiAgentDeployment, aiAgentSettings,
                  aiAgentConfigCRDs, authenticationSecrets, permissions, apiError,
                  hasAiAgentSettingsValidationErrors, hasAiAgentConfigsValidationErrors,
                  dialog, savePc, pageEdits, saves, btnCB >>
  /\ UNCHANGED formVars /\ UNCHANGED svcVars /\ UNCHANGED selVars

\* fetchAiAgentSettings after the config-map lookup: copy, then set aiAgentSettings.
FetchedConfigMap(outcome) ==
  /\ CONFIG_MAP \in pending
  /\ aiAgentSettings' =
       << CopyConfigMapEntries(settingsFormData, FoundData(outcome, backend.configMap)) >>
  /\ pending' = pending \ {CONFIG_MAP}
  /\ pageLast' = PageStep("FetchedConfigMap", outcome)
  /\ UNCHANGED << getters, backend, isLoading, aiAgentDeployment, aiAgentConfigCRDs,
                  authenticationSecrets, permissions, apiError,
                  hasAiAgentSettingsValidationErrors, hasAiAgentConfigsValidationErrors,
                  settingsFormData, dialog, savePc, pageEdits, saves, log, btnCB >>
  /\ UNCHANGED formVars /\ UNCHANGED svcVars /\ UNCHANGED selVars

\* A slip: the list is set only when the lookup resolved.
FetchedConfigCRDs_keepsNullOnFailure(outcome) ==
  /\ AI_AGENT_CONFIG \in pending
  /\ aiAgentConfigCRDs' = IF outcome = "found" THEN << backend.crds >> ELSE aiAgentConfigCRDs
  /\ pending' = pending \ {AI_AGENT_CONFIG}
  /\ pageLast' = PageStep("FetchedConfigCRDs", outcome)
  /\ UNCHANGED << getters, backend, isLoading, aiAgentDeployment, aiAgentSettings,
                  authenticationSecrets, permissions, apiError,
                  hasAiAgentSettingsValidationErrors, hasAiAgentConfigsValidationErrors,
                  settingsFormData, dialog, savePc, pageEdits, saves, log, btnCB >>
  /\ UNCHANGED formVars /\ UNCHANGED svcVars /\ UNCHANGED selVars

\* fetchAiAgentConfigCRDs after its lookup (of onMounted, or the re-watch of save).
FetchedConfigCRDs(outcome) ==
  /\ AI_AGENT_CONFIG \in pending
  /\ aiAgentConfigCRDs' = << IF outcome = "found" THEN backend.crds ELSE <<>> >>
  /\ pending' = pending \ {AI_AGENT_CONFIG}
  /\ pageLast' = PageStep("FetchedConfigCRDs", outcome)
  /\ UNCHANGED << getters, backend, isLoading, aiAgentDeployment, aiAgentSettings,
                  authenticationSecrets, permissions, apiError,
                  hasAiAgentSettingsValidationErrors, hasAiAgentConfigsValidationErrors,
                  settingsFormData, dialog, savePc, pageEdits, saves, log, btnCB >>
  /\ UNCHANGED formVars /\ UNCHANGED svcVars /\ UNCHANGED selVars

(***************************************************************************)
(* The settings page: what it renders, and the events of its children.     *)
(***************************************************************************)
\* v-if of <loading>.
LoadingShown ==
  \/ isLoading
  \/ Perm(permissions, "list", "canListSecrets") /\ aiAgentSettings = <<>>
  \/ Perm(permissions, "list", "canListAiAgentCRDS") /\ aiAgentConfigCRDs = <<>>

\* The banner of the missing deployment.
NoDeploymentShown == ~LoadingShown /\ aiAgentDeployment = <<>>

\* The v-else template with the two sections and the footer.
SectionsShown == ~LoadingShown /\ aiAgentDeployment # <<>>

AIAgentSettingsShown == SectionsShown /\ aiAgentSettings # <<>>

AIAgentSettingsReadOnly == ~Perm(permissions, "create", "canCreateSecrets")

AIAgentConfigsShown == SectionsShown /\ aiAgentConfigCRDs # <<>>

AIAgentConfigsReadOnly ==
  ~Perm(permissions, "create", "canCreateSecrets")
    \/ ~Perm(permissions, "create", "canCreateAiAgentCRDS")

\* v-if and :disabled of the async-button.
ApplyOffered_secretsOnly == SectionsShown /\ Perm(permissions, "create", "canCreateSecrets")

ApplyOffered ==
  SectionsShown /\ ( Perm(permissions, "create", "canCreateAiAgentCRDS")
                       \/ Perm(permissions, "create", "canCreateSecrets") )

ApplyDisabled_settingsOnly == hasAiAgentSettingsValidationErrors

ApplyDisabled == hasAiAgentSettingsValidationErrors \/ hasAiAgentConfigsValidationErrors

\* The events of the page: a user's edits and the children's validation signals.
\* The values a user types into the settings form, and the lists and secret
\* payloads the agent-config section emits.
PageEditKeys == {OPENAI_API_KEY}

PageEditVals == {"b"}

FormLists ==
  { << Crd("a1", FALSE, FALSE, "e", NONE, <<"s1">>) >>,
    << Crd("a1", FALSE, TRUE, "d", BASIC, <<"cattle-ai-agent-system/s1">>),
       Crd("a2", FALSE, TRUE, "e", RANCHER, <<>>) >> }

NoKeys == [privateKey |-> "", publicKey |-> ""]

SomeKeys == [privateKey |-> "a", publicKey |-> "b"]

SecretPayloads == { [a1 |-> NoKeys, a2 |-> SomeKeys] }

PageUserEvent == pageEdits < MaxPageEdits

PageEventFrame ==
  /\ UNCHANGED << getters, backend, isLoading, aiAgentDeployment, permissions, pending,
                  settingsFormData, dialog, savePc, saves, log, btnCB >>
  /\ UNCHANGED formVars /\ UNCHANGED svcVars /\ UNCHANGED selVars

\* @update:value of AIAgentSettings.
SettingsUpdateValue(key, val) ==
  /\ AIAgentSettingsShown /\ ~AIAgentSettingsReadOnly /\ PageUserEvent
  /\ aiAgentSettings' = << SetKey(aiAgentSettings[1], key, val) >>
  /\ apiError' = ""
  /\ pageEdits' = pageEdits + 1
  /\ pageLast' = PageStep("update:value", key)
  /\ UNCHANGED << aiAgentConfigCRDs, authenticationSecrets,
                  hasAiAgentSettingsValidationErrors, hasAiAgentConfigsValidationErrors >>
  /\ PageEventFrame

\* @update:validation-error of AIAgentSettings.
SettingsValidationError(b) ==
  /\ AIAgentSettingsShown /\ PageUserEvent
  /\ hasAiAgentSettingsValidationErrors # b
  /\ hasAiAgentSettingsValidationErrors' = b
  /\ pageEdits' = pageEdits + 1
  /\ pageLast' = PageStep("update:validation-error", "settings")
  /\ UNCHANGED << aiAgentSettings, aiAgentConfigCRDs, authenticationSecrets, apiError,
                  hasAiAgentConfigsValidationErrors >>
  /\ PageEventFrame

\* @update:value of AIAgentConfigs.
ConfigsUpdateValue(list) ==
  /\ AIAgentConfigsShown /\ ~AIAgentConfigsReadOnly /\ PageUserEvent
  /\ aiAgentConfigCRDs' = << list >>
  /\ pageEdits' = pageEdits + 1
  /\ pageLast' = PageStep("update:value", "configs")
  /\ UNCHANGED << aiAgentSettings, authenticationSecrets, apiError,
                  hasAiAgentSettingsValidationErrors, hasAiAgentConfigsValidationErrors >>
  /\ PageEventFrame

\* @update:authentication-secrets of AIAgentConfigs.
ConfigsUpdateAuthenticationSecrets(payloads) ==
  /\ AIAgentConfigsShown /\ ~AIAgentConfigsReadOnly /\ PageUserEvent
  /\ authenticationSecrets' = payloads
  /\ pageEdits' = pageEdits + 1
  /\ pageLast' = PageStep("update:authentication-secrets", "configs")
  /\ UNCHANGED << aiAgentSettings, aiAgentConfigCRDs, apiError,
                  hasAiAgentSettingsValidationErrors, hasAiAgentConfigsValidationErrors >>
  /\ PageEventFrame

\* @update:validation-error of AIAgentConfigs.
ConfigsValidationError(b) ==
  /\ AIAgentConfigsShown /\ PageUserEvent
  /\ hasAiAgentConfigsValidationErrors # b
  /\ hasAiAgentConfigsValidationErrors' = b
  /\ pageEdits' = pageEdits + 1
  /\ pageLast' = PageStep("update:validation-error", "configs")
  /\ UNCHANGED << aiAgentSettings, aiAgentConfigCRDs, authenticationSecrets, apiError,
                  hasAiAgentSettingsValidationErrors >>
  /\ PageEventFrame

(***************************************************************************)
(* The settings page: the Apply dialog and save().                         *)
(***************************************************************************)
\* t('aiConfig.form.save.apiError', { error }, true)
ApiErrorLabel == "aiConfig.form.save.apiError"

AgentNames == <<"a1", "a2">>

NotSaving == [at |-> "idle", payload |-> <<>>]

Saving(at) == [at |-> at, payload |-> <<>>]

PageFail(op, outcome) == [op |-> op, outcome |-> outcome, failed |-> TRUE]

\* The record saveAgentSettings hands to saveSettings.
saveAgentSettings_presentKeysOnly(formDataObject) ==
  [key \in DOMAIN formDataObject |-> formDataObject[key]]

saveAgentSettings(formDataObject) ==
  [key \in Settings |-> OrEmpty(formDataObject, key)]

\* The index of the first entry of a list of resources with a name, 0 if none.
FindByName(list, name) ==
  IF \E i \in 1..Len(list) : list[i].name = name
    THEN CHOOSE i \in 1..Len(list) :
           list[i].name = name /\ \A j \in 1..(i - 1) : list[j].name # name
    ELSE 0

\* secret.save() resolves with the secret under its generated name.
SavedSecretName(agent) == "ai-agent-auth-" \o agent

\* The loop of saveAiAgentConfigAuthenticationSecrets over the agents that have
\* a payload; st carries the form's list, the secrets stored, the log, and
\* whether a rejected create has thrown out of the loop.
RECURSIVE SecretsLoop(_, _, _, _)
SecretsLoop(agents, payloads, oc, st) ==
  IF agents = <<>> \/ st.thrown THEN st
  ELSE
    LET agent == Head(agents)
        i == FindByName(st.crds, agent)
        secretPayload == payloads[agent]
    IN  IF i = 0 \/ (secretPayload.privateKey = "" /\ secretPayload.publicKey = "")
          THEN SecretsLoop(Tail(agents), payloads, oc, st)
        ELSE IF oc[agent] = "createRejects"
          THEN [st EXCEPT !.thrown = TRUE, !.log = Append(@, "create secret:failed")]
        ELSE IF oc[agent] = "saveRejects"
          THEN SecretsLoop(Tail(agents), payloads, oc,
                 [st EXCEPT !.log = @ \o <<"create secret", "save secret:failed">>])
        ELSE SecretsLoop(Tail(agents), payloads, oc,
               [st EXCEPT !.log = @ \o <<"create secret", "save secret", "write aiAgentConfigCRDs">>,
                          !.auth = @ \cup {[ name |-> SavedSecretName(agent),
                                              password |-> base64Encode(secretPayload.privateKey),
                                              username |-> base64Encode(secretPayload.publicKey) ]},
                          !.crds = [@ EXCEPT ![i].spec.authenticationType = BASIC,
                                             ![i].spec.authenticationSecret =
                                               << SavedSecretName(agent) >>]])

\* authenticationSecret?.replaceAll(`${ AGENT_NAMESPACE }/`, '')
StripNamespace(secret) ==
  IF secret = << "cattle-ai-agent-system/s1" >> THEN << "s1" >> ELSE secret

\* "Normalize authenticationSecret" of saveAiAgentConfigCRDs.
NormalizeSpec_keepsSecret(spec) ==
  [spec EXCEPT !.authenticationSecret = StripNamespace(@)]

NormalizeSpec(spec) ==
  IF spec.authenticationType = BASIC
    THEN [spec EXCEPT !.authenticationSecret = StripNamespace(@)]
    ELSE [spec EXCEPT !.authenticationSecret = <<>>]

\* The spec an existing resource gets from the form's entry.
UpdatedSpec_overwritesBuiltIn(existing, crd) == crd.spec

UpdatedSpec(existing, crd) ==
  IF existing.spec.builtIn
    THEN [existing.spec EXCEPT !.enabled = crd.spec.enabled]
    ELSE crd.spec

\* The first loop of saveAiAgentConfigCRDs: stored resources that are not in the
\* form are removed; a rejected remove is only logged.
RECURSIVE RemoveLoop(_, _, _, _)
RemoveLoop(crds, crdsToSave, oc, st) ==
  IF crds = <<>> THEN st
  ELSE
    LET crd == Head(crds)
    IN  IF FindByName(crdsToSave, crd.name) # 0
          THEN RemoveLoop(Tail(crds), crdsToSave, oc, st)
        ELSE IF oc[crd.name] = "ok"
          THEN RemoveLoop(Tail(crds), crdsToSave, oc,
                 [st EXCEPT !.log = Append(@, "remove aiagentconfig"),
                            !.stored = SelectSeq(@, LAMBDA c : c.name # crd.name)])
        ELSE RemoveLoop(Tail(crds), crdsToSave, oc,
               [st EXCEPT !.log = Append(@, "remove aiagentconfig:failed")])

\* A resource saved under its name: it replaces the stored one or is added.
PutByName(stored, obj) ==
  IF FindByName(stored, obj.name) # 0
    THEN [stored EXCEPT ![FindByName(stored, obj.name)] = obj]
    ELSE Append(stored, obj)

\* The second loop of saveAiAgentConfigCRDs over the form's entries from index i:
\* crds is what findAll returned, st carries the form's list, the stored
\* resources, the log and whether a rejected create has thrown. An existing
\* resource that is not builtIn gets the entry's spec object itself, so the
\* normalisation is seen in the form's entry; shares says whether a created
\* resource keeps the entry's spec object too. The log notes every write into
\* an entry of the form's list.
RECURSIVE SaveLoop(_, _, _, _, _)
SaveLoop(i, crds, oc, shares, st) ==
  IF i > Len(st.crds) \/ st.thrown THEN st
  ELSE
    LET crd == st.crds[i]
        e == FindByName(crds, crd.name)
        aliased == IF e # 0 THEN ~crds[e].spec.builtIn ELSE shares
        spec == NormalizeSpec(IF e # 0 THEN UpdatedSpec(crds[e], crd) ELSE crd.spec)
        obj == [name |-> crd.name, spec |-> spec]
        st1 == IF aliased /\ spec # crd.spec
                 THEN [st EXCEPT !.crds[i].spec = spec,
                                 !.log = Append(@, "write aiAgentConfigCRDs")]
                 ELSE st
    IN  IF e = 0 /\ oc[crd.name] = "createRejects"
          THEN [st EXCEPT !.thrown = TRUE, !.log = Append(@, "create aiagentconfig:failed")]
        ELSE
          LET lg == IF e = 0 THEN Append(st1.log, "create aiagentconfig") ELSE st1.log
          IN  IF oc[crd.name] = "saveRejects"
                THEN SaveLoop(i + 1, crds, oc, shares,
                       [st1 EXCEPT !.log = Append(lg, "save aiagentconfig:failed")])
                ELSE SaveLoop(i + 1, crds, oc, shares,
                       [st1 EXCEPT !.log = Append(lg, "save aiagentconfig"),
                                   !.stored = PutByName(@, obj)])

\* What no step of the dialog or of save() changes.
SaveFrame ==
  /\ UNCHANGED << getters, isLoading, aiAgentDeployment, aiAgentSettings, authenticationSecrets,
                  permissions, hasAiAgentSettingsValidationErrors,
                  hasAiAgentConfigsValidationErrors, settingsFormData, pageEdits >>
  /\ UNCHANGED formVars /\ UNCHANGED svcVars /\ UNCHANGED selVars

\* The catch of save().
SaveCatch ==
  /\ apiError' = ApiErrorLabel
  /\ btnCB' = Append(btnCB, FALSE)
  /\ savePc' = NotSaving

\* The end of the try of save().
SaveDone ==
  /\ apiError' = ""
  /\ btnCB' = Append(btnCB, TRUE)
  /\ savePc' = NotSaving

\* redeployAiAgent up to its await: the deployment is looked up.
StartRedeploy(lg) ==
  /\ savePc' = Saving("redeploy")
  /\ log' = Append(lg, "find deployment")
  /\ UNCHANGED << apiError, btnCB >>

\* A click on Apply: openApplySettingsDialog up to its await of fetchSettings.
openApplySettingsDialog ==
  /\ ApplyOffered /\ ~ApplyDisabled
  /\ dialog = "closed" /\ savePc.at = "idle" /\ saves < MaxSaves
  /\ dialog' = "fetchSettings"
  /\ saves' = saves + 1
  /\ log' = << "fetch settings" >>
  /\ btnCB' = <<>>
  /\ pageLast' = PageStep("openApplySettingsDialog", "")
  /\ UNCHANGED << backend, aiAgentConfigCRDs, apiError, pending, savePc >>
  /\ SaveFrame

\* fetchSettings returned (it never throws): the modal opens.
ModalOpened ==
  /\ dialog = "fetchSettings"
  /\ dialog' = "open"
  /\ pageLast' = PageStep("modal.open", "")
  /\ UNCHANGED << backend, aiAgentConfigCRDs, apiError, pending, savePc, saves, log, btnCB >>
  /\ SaveFrame

\* A slip: the cancellation goes on to the redeploy.
onCancel_redeploys ==
  /\ dialog = "open"
  /\ dialog' = "closed"
  /\ StartRedeploy(log)
  /\ pageLast' = PageStep("onCancel", "")
  /\ UNCHANGED << backend, aiAgentConfigCRDs, pending, saves >>
  /\ SaveFrame

\* onCancel of the dialog.
onCancel ==
  /\ dialog = "open"
  /\ dialog' = "closed"
  /\ btnCB' = Append(btnCB, TRUE)
  /\ pageLast' = PageStep("onCancel", "")
  /\ UNCHANGED << backend, aiAgentConfigCRDs, apiError, pending, savePc, saves, log >>
  /\ SaveFrame

\* onConfirm of the dialog: save(btnCB) runs up to its first await. Without the
\* settings record saveAgentSettings throws a TypeError on formDataObject[key].
onConfirm ==
  /\ dialog = "open"
  /\ dialog' = "closed"
  /\ IF ~Perm(permissions, "create", "canCreateSecrets")
       THEN /\ SaveDone
            /\ pageLast' = PageStep("onConfirm", "done")
            /\ log' = Append(log, "save")
     ELSE IF aiAgentSettings = <<>>
       THEN /\ SaveCatch
            /\ pageLast' = PageFail("onConfirm", "TypeError")
            /\ log' = log \o << "save", "saveAgentSettings", "saveAgentSettings:failed" >>
     ELSE /\ savePc' = [at |-> "saveSettings", payload |-> saveAgentSettings(aiAgentSettings[1])]
          /\ log' = log \o << "save", "saveAgentSettings" >>
          /\ pageLast' = PageStep("onConfirm", "saveSettings")
          /\ UNCHANGED << apiError, btnCB >>
  /\ UNCHANGED << backend, aiAgentConfigCRDs, pending, saves >>
  /\ SaveFrame

\* A slip: save() goes on to the redeploy when saveSettings rejected.
SavedSettings_ignoresFailure(ok) ==
  /\ savePc.at = "saveSettings"
  /\ IF ~ok
       THEN /\ StartRedeploy(Append(log, "saveAgentSettings:failed"))
            /\ pageLast' = PageFail("SavedSettings", "rejects")
            /\ UNCHANGED backend
     ELSE /\ backend' = [backend EXCEPT !.saved = << savePc.payload >>]
          /\ pageLast' = PageStep("SavedSettings", "ok")
          /\ IF Perm(permissions, "create", "canCreateAiAgentCRDS")
               THEN /\ savePc' = Saving("secrets")
                    /\ UNCHANGED << apiError, btnCB, log >>
               ELSE StartRedeploy(log)
  /\ UNCHANGED << aiAgentConfigCRDs, pending, dialog, saves >>
  /\ SaveFrame

\* saveSettings answered: save() goes on to the secrets or to the redeploy.
SavedSettings(ok) ==
  /\ savePc.at = "saveSettings"
  /\ IF ~ok
       THEN /\ SaveCatch
            /\ log' = Append(log, "saveAgentSettings:failed")
            /\ pageLast' = PageFail("SavedSettings", "rejects")
            /\ UNCHANGED backend
     ELSE /\ backend' = [backend EXCEPT !.saved = << savePc.payload >>]
          /\ pageLast' = PageStep("SavedSettings", "ok")
          /\ IF Perm(permissions, "create", "canCreateAiAgentCRDS")
               THEN /\ savePc' = Saving("secrets")
                    /\ UNCHANGED << apiError, btnCB, log >>
               ELSE StartRedeploy(log)
  /\ UNCHANGED << aiAgentConfigCRDs, pending, dialog, saves >>
  /\ SaveFrame

\* How the store operations on one agent's resources end.
StepOutcomes == [ {"a1", "a2"} -> {"ok", "createRejects", "saveRejects"} ]

\* aiAgentConfigCRDs.value || []
FormCrds == IF aiAgentConfigCRDs = <<>> THEN <<>> ELSE aiAgentConfigCRDs[1]

\* The form's list after a loop that may have written into its entries.
WriteFormCrds(list) ==
  aiAgentConfigCRDs' = IF aiAgentConfigCRDs = <<>> THEN <<>> ELSE << list >>

\* saveAiAgentConfigAuthenticationSecrets, then saveAiAgentConfigCRDs up to its
\* await of findAll.
SavedAuthenticationSecrets(oc) ==
  /\ savePc.at = "secrets"
  /\ LET agents == SelectSeq(AgentNames, LAMBDA a : a \in DOMAIN authenticationSecrets)
         st == SecretsLoop(agents, authenticationSecrets, oc,
                 [crds |-> FormCrds, auth |-> backend.authSecrets, log |-> log, thrown |-> FALSE])
     IN  /\ WriteFormCrds(st.crds)
         /\ backend' = [backend EXCEPT !.authSecrets = st.auth]
         /\ IF st.thrown
              THEN /\ SaveCatch
                   /\ log' = st.log
                   /\ pageLast' = PageFail("SavedAuthenticationSecrets", "createRejects")
              ELSE /\ savePc' = Saving("crds")
                   /\ log' = Append(st.log, "findAll aiagentconfig")
                   /\ pageLast' = PageStep("SavedAuthenticationSecrets", "ok")
                   /\ UNCHANGED << apiError, btnCB >>
  /\ UNCHANGED << pending, dialog, saves >>
  /\ SaveFrame

\* saveAiAgentConfigCRDs after findAll, then the re-watch and redeployAiAgent up
\* to its await.
SavedConfigCRDs(found, oc, shares) ==
  /\ savePc.at = "crds"
  /\ LET crds == IF found = "found" THEN backend.crds ELSE <<>>
         removed == RemoveLoop(crds, FormCrds, oc, [stored |-> backend.crds, log |-> log])
         st == SaveLoop(1, crds, oc, shares,
                 [crds |-> FormCrds, stored |-> removed.stored, log |-> removed.log,
                  thrown |-> FALSE])
     IN  /\ WriteFormCrds(st.crds)
         /\ backend' = [backend EXCEPT !.crds = st.stored]
         /\ IF st.thrown
              THEN /\ SaveCatch
                   /\ log' = st.log
                   /\ pageLast' = PageFail("SavedConfigCRDs", "createRejects")
                   /\ UNCHANGED pending
              ELSE /\ pending' = pending \cup {AI_AGENT_CONFIG}
                   /\ StartRedeploy(Append(st.log, "findAll aiagentconfig"))
                   /\ pageLast' = PageStep("SavedConfigCRDs", found)
  /\ UNCHANGED << dialog, saves >>
  /\ SaveFrame

\* How redeployAiAgent can end: the lookup rejects or finds nothing, or the
\* deployment's save rejects, or it is saved.
RedeployOutcomes == {"ok", "findRejects", "findNull", "saveRejects"}

\* redeployAiAgent after its lookup (every failure is caught), then the end of
\* the try of save().
Redeployed(outcome) ==
  /\ savePc.at = "redeploy"
  /\ IF outcome = "ok"
       THEN /\ backend' = [backend EXCEPT !.restarts = @ + 1]
            /\ log' = Append(log, "save deployment")
       ELSE /\ UNCHANGED backend
            /\ log' = Append(log, IF outcome = "saveRejects" THEN "save deployment:failed"
                                                              ELSE "find deployment:failed")
  /\ SaveDone
  /\ pageLast' = PageStep("Redeployed", outcome)
  /\ UNCHANGED << aiAgentConfigCRDs, pending, dialog, saves >>
  /\ SaveFrame

(***************************************************************************)
(* SelectAgent: the agent shown as selected, the options of the dropdown   *)
(* and the select event.                                                   *)
(***************************************************************************)
ADAPTIVE_MODE_ID == "__adaptive__"

\* t('ai.agents.items.default.displayName') and t('ai.agents.items.unknown')
DefaultDisplayName == "ai.agents.items.default.displayName"

UnknownLabel == "ai.agents.items.unknown"

\* An agent of props.agents: the fields the component reads.
Agent(name, displayName, status) ==
  [name |-> name, displayName |-> displayName, status |-> status]

\* The lists of agents the parent may hand over: x, y and z, each absent,
\* active or in error, x with a display name.
AgentStatuses == {"absent", "active", "error"}

AgentLists ==
  { SelectSeq(<< Agent("x", "X", sx), Agent("y", "", sy), Agent("z", "", sz) >>,
              LAMBDA a : a.status # "absent") :
      sx \in AgentStatuses, sy \in AgentStatuses, sz \in AgentStatuses }

\* props.agentName: none, an agent of the lists, or a name of no agent.
AgentNameProps == {"", "x", "y", "w"}

\* The computed activeAgentNames.
activeAgentNames(ags) ==
  LET filtered == SelectSeq(ags, LAMBDA agent : agent.status = "active")
  IN  [i \in 1..Len(filtered) |-> filtered[i].name]

\* The computed options.
options(ags) ==
  LET defaultOptions ==
        IF Len(activeAgentNames(ags)) > 1
          THEN << [name |-> ADAPTIVE_MODE_ID, displayName |-> DefaultDisplayName, error |-> FALSE] >>
          ELSE <<>>
  IN  defaultOptions \o
      [i \in 1..Len(ags) |->
        [ name |-> ags[i].name,
          displayName |-> IF ags[i].displayName # "" THEN ags[i].displayName ELSE ags[i].name,
          error |-> ags[i].status # "active" ]]

\* A slip: agentName is looked at before the number of active agents.
selectedAgentName_propFirst(ags, name) ==
  IF \E i \in 1..Len(ags) : ags[i].name = name THEN name ELSE ADAPTIVE_MODE_ID

\* The computed selectedAgentName.
selectedAgentName(ags, name) ==
  LET active == activeAgentNames(ags)
  IN  IF Len(active) = 0 THEN ADAPTIVE_MODE_ID
      ELSE IF Len(active) = 1 THEN active[1]
      ELSE IF name = "" THEN ADAPTIVE_MODE_ID
      ELSE IF ~\E i \in 1..Len(active) : active[i] = name THEN ADAPTIVE_MODE_ID
      ELSE name

\* The text of the trigger:
\* options?.find(opt => opt.name === selectedAgentName)?.displayName || t('ai.agents.items.unknown')
TriggerLabel(ags, name) ==
  LET opts == options(ags)
      sel == selectedAgentName(ags, name)
      hits == SelectSeq(opts, LAMBDA opt : opt.name = sel)
  IN  IF hits # <<>> /\ hits[1].displayName # "" THEN hits[1].displayName ELSE UnknownLabel

NoSelStep == [op |-> "created", id |-> ""]

SelStep(op, id) == [op |-> op, id |-> id]

\* The component as its setup leaves it, whatever its props are.
SelConstructed ==
  /\ isOpen = FALSE
  /\ selectTimer = <<>>
  /\ selectEmitted = <<>>
  /\ selLast = NoSelStep

\* The component is not looked at: the other specifications leave it as
\* constructed with its default props.
SelUntouched ==
  /\ SelConstructed
  /\ agentsProp = <<>>
  /\ agentName = ""
  /\ disabled = FALSE

SelFrame == UNCHANGED formVars /\ UNCHANGED pageVars /\ UNCHANGED svcVars

\* The parent hands over another list of agents.
SelPropsAgents(list) ==
  /\ agentsProp # list
  /\ agentsProp' = list
  /\ selLast' = SelStep("props.agents", "")
  /\ UNCHANGED << agentName, disabled, isOpen, selectTimer, selectEmitted >>
  /\ SelFrame

\* The parent hands over another agentName.
SelPropsAgentName(name) ==
  /\ agentName # name
  /\ agentName' = name
  /\ selLast' = SelStep("props.agentName", name)
  /\ UNCHANGED << agentsProp, disabled, isOpen, selectTimer, selectEmitted >>
  /\ SelFrame

\* @update:open of the dropdown; its trigger is disabled with props.disabled.
SelUpdateOpen(open) ==
  /\ isOpen # open
  /\ open => ~disabled
  /\ isOpen' = open
  /\ selLast' = SelStep("update:open", "")
  /\ UNCHANGED << agentsProp, agentName, disabled, selectTimer, selectEmitted >>
  /\ SelFrame

\* @click of an item of the open dropdown that is not disabled:
\* debouncedSelectAgent(opt.name) starts or restarts the timer.
SelClickOption(i) ==
  /\ isOpen
  /\ i \in 1..Len(options(agentsProp))
  /\ ~options(agentsProp)[i].error
  /\ selectTimer' = << options(agentsProp)[i].name >>
  /\ selLast' = SelStep("click", options(agentsProp)[i].name)
  /\ UNCHANGED << agentsProp, agentName, disabled, isOpen, selectEmitted >>
  /\ SelFrame

\* A slip: the identifier of the adaptive mode is emitted as it is.
debouncedSelectAgent_emitsId ==
  /\ selectTimer # <<>>
  /\ selectEmitted' = selectTimer
  /\ selectTimer' = <<>>
  /\ selLast' = SelStep("select", selectTimer[1])
  /\ UNCHANGED << agentsProp, agentName, disabled, isOpen >>
  /\ SelFrame

\* The timer of debouncedSelectAgent expires: the function runs with the
\* argument of the last call.
debouncedSelectAgent ==
  /\ selectTimer # <<>>
  /\ selectEmitted' = << IF selectTimer[1] = ADAPTIVE_MODE_ID THEN "" ELSE selectTimer[1] >>
  /\ selectTimer' = <<>>
  /\ selLast' = SelStep("select", selectTimer[1])
  /\ UNCHANGED << agentsProp, agentName, disabled, isOpen >>
  /\ SelFrame

(***************************************************************************)
(* useAIServiceComposable: the state of the agent's deployment, the LLM    *)
(* configuration shown by the console and the error of the service.        *)
(***************************************************************************)
\* Changes of the store's deployments in one run.
MaxSvcChanges == 2

\* AIServiceState.NotFound, and what the computed returns before initiation.
NotFound == "not-found"

Undefined == "undefined"

\* The keys of the errors the composable sets.
DeploymentNoPermission == "ai.error.services.deployment.noPermission"

DeploymentNotFound == "ai.error.services.deployment.notFound"

SettingsMissingConfig == "ai.error.services.settings.missingConfig"

SettingsNoPermission == "ai.error.services.settings.noPermission"

\* deployment.state of the deployments that occur.
DeploymentStates == {"active", "updating"}

\* The data of the llm-config secret and config map in the store: <<>> when
\* the resource is missing, else <<data>>.
SvcSecretDatas == { <<>>, << [OPENAI_API_KEY |-> "YQ=="] >> }

SvcConfigMapDatas ==
  { <<>>,
    << [ACTIVE_LLM |-> "openai", OPENAI_MODEL |-> "m1"] >>,
    << [OPENAI_MODEL |-> "", GEMINI_MODEL |-> "m1"] >> }

SvcGetterSets == [ canList : [ {DEPLOYMENT, SECRET, CONFIG_MAP} -> BOOLEAN ] ]

SvcStores ==
  { [ deployment |-> d, cluster |-> c, secret |-> x, configMap |-> y ] :
      c \in {<<>>, <<"active">>}, d \in {<<>>, <<"active">>},
      x \in SvcSecretDatas, y \in SvcConfigMapDatas }

\* The computed aiAgentDeploymentState.
aiAgentDeploymentState_ignoresInitiated(init, store) ==
  IF store.deployment = <<>> THEN NotFound ELSE store.deployment[1]

aiAgentDeploymentState(init, store) ==
  IF ~init THEN Undefined
  ELSE IF store.deployment = <<>> THEN NotFound
  ELSE store.deployment[1]

\* decodeModel
decodeModel(configMapData, activeLLM) ==
  IF activeLLM # "" THEN OrEmpty(configMapData, ToUpperCase(activeLLM) \o "_MODEL") ELSE ""

\* The provider decodeLLMConfig settles on.
decodeActiveLLM(secretData, configMapData) ==
  IF OrEmpty(configMapData, "ACTIVE_LLM") # "" THEN configMapData["ACTIVE_LLM"]
  ELSE IF OrEmpty(secretData, OLLAMA_URL) # "" THEN Local
  ELSE IF OrEmpty(secretData, GOOGLE_API_KEY) # "" THEN Gemini
  ELSE IF OrEmpty(secretData, OPENAI_API_KEY) # "" THEN OpenAI
  ELSE IF OrEmpty(secretData, AWS_BEARER_TOKEN_BEDROCK) # "" THEN Bedrock
  ELSE ""

\* decodeLLMConfig: <<>> is null.
decodeLLMConfig(secretData, configMapData) ==
  LET activeLLM == decodeActiveLLM(secretData, configMapData)
      activeModel == decodeModel(configMapData, activeLLM)
  IN  IF activeLLM # "" /\ activeModel # ""
        THEN << [ name |-> "ai.configurations.models." \o activeLLM, model |-> activeModel ] >>
        ELSE <<>>

NoSvcStep == [op |-> "created", old |-> Undefined, new |-> Undefined, fired |-> FALSE]

SvcStep(op, old, new) == [op |-> op, old |-> old, new |-> new, fired |-> old # new]

\* The refs of the composable as its setup leaves them.
SvcConstructed ==
  /\ initiated = FALSE
  /\ llmConfig = <<>>
  /\ aiServiceError = <<>>
  /\ svcMount = "created"
  /\ llmFetches = {}
  /\ svcIssued = 0
  /\ svcChanges = 0
  /\ svcLast = NoSvcStep

\* The composable is not looked at: the other specifications leave it as
\* constructed.
SvcUntouched ==
  /\ SvcConstructed
  /\ svcGetters = [ canList |-> [t \in {DEPLOYMENT, SECRET, CONFIG_MAP} |-> TRUE] ]
  /\ svcStore = [ deployment |-> <<>>, cluster |-> <<>>, secret |-> <<>>, configMap |-> <<>> ]

SvcFrame == UNCHANGED formVars /\ UNCHANGED pageVars /\ UNCHANGED selVars

\* fetchLLMConfigs up to its first await.
canFetchLLMConfigs_secretOnly == svcGetters.canList[SECRET]

canFetchLLMConfigs == svcGetters.canList[SECRET] /\ svcGetters.canList[CONFIG_MAP]

fetchLLMConfigs ==
  IF canFetchLLMConfigs
    THEN /\ llmFetches' = llmFetches \cup {[id |-> svcIssued + 1, at |-> "secret", secret |-> <<>>]}
         /\ svcIssued' = svcIssued + 1
         /\ aiServiceError' = <<>>
    ELSE /\ aiServiceError' = << SettingsNoPermission >>
         /\ UNCHANGED << llmFetches, svcIssued >>

\* The callback of the watch on aiAgentDeploymentState, run when the value of
\* the computed has changed.
watchDeploymentState_fetchesAlways(old, new) ==
  IF old = new THEN UNCHANGED << aiServiceError, llmFetches, svcIssued >>
  ELSE fetchLLMConfigs

watchDeploymentState(old, new) ==
  IF old = new THEN UNCHANGED << aiServiceError, llmFetches, svcIssued >>
  ELSE IF new = NotFound
    THEN /\ aiServiceError' = << DeploymentNotFound >>
         /\ UNCHANGED << llmFetches, svcIssued >>
  ELSE fetchLLMConfigs

\* onMounted up to its await: fetchDeployments dispatches findAll when the
\* deployments may be listed, else it sets the error and returns.
SvcOnMounted ==
  /\ svcMount = "created"
  /\ svcMount' = "fetchDeployments"
  /\ aiServiceError' =
       IF svcGetters.canList[DEPLOYMENT] THEN aiServiceError ELSE << DeploymentNoPermission >>
  /\ svcLast' = SvcStep("onMounted", Undefined, Undefined)
  /\ UNCHANGED << svcGetters, svcStore, initiated, llmConfig, llmFetches, svcIssued, svcChanges >>
  /\ SvcFrame

\* fetchDeployments returned: findAll has loaded the cluster's deployments into
\* the store and initiated is set. A findAll that rejects ends onMounted.
SvcFetchedDeployments(ok) ==
  /\ svcMount = "fetchDeployments"
  /\ ~svcGetters.canList[DEPLOYMENT] => ok
  /\ IF ~ok
       THEN /\ svcMount' = "failed"
            /\ svcLast' = SvcStep("fetchDeployments:failed", Undefined, Undefined)
            /\ UNCHANGED << svcStore, initiated, aiServiceError, llmFetches, svcIssued >>
     ELSE /\ svcMount' = "done"
          /\ svcStore' = IF svcGetters.canList[DEPLOYMENT]
                           THEN [svcStore EXCEPT !.deployment = svcStore.cluster]
                           ELSE svcStore
          /\ initiated' = TRUE
          /\ watchDeploymentState(aiAgentDeploymentState(initiated, svcStore),
                                  aiAgentDeploymentState(TRUE, svcStore'))
          /\ svcLast' = SvcStep("initiated", aiAgentDeploymentState(initiated, svcStore),
                                aiAgentDeploymentState(TRUE, svcStore'))
  /\ UNCHANGED << svcGetters, llmConfig, svcChanges >>
  /\ SvcFrame

\* The store's deployments change (an event of the cluster, or another
\* component loading them): the agent's deployment appears, goes or changes
\* its state.
SvcStoreChange(d) ==
  /\ svcChanges < MaxSvcChanges
  /\ d # svcStore.deployment
  /\ svcStore' = [svcStore EXCEPT !.deployment = d]
  /\ svcChanges' = svcChanges + 1
  /\ watchDeploymentState(aiAgentDeploymentState(initiated, svcStore),
                          aiAgentDeploymentState(initiated, svcStore'))
  /\ svcLast' = SvcStep("store", aiAgentDeploymentState(initiated, svcStore),
                        aiAgentDeploymentState(initiated, svcStore'))
  /\ UNCHANGED << svcGetters, initiated, llmConfig, svcMount >>
  /\ SvcFrame

\* The lookup of the secret answered: fetchLLMConfigs goes on to the config map.
SvcFetchedSecret(f, outcome) ==
  /\ f \in llmFetches /\ f.at = "secret"
  /\ llmFetches' = (llmFetches \ {f}) \cup
       {[f EXCEPT !.at = "configMap",
                  !.secret = IF outcome = "found" THEN svcStore.secret ELSE <<>>]}
  /\ svcLast' = [SvcStep("find secret", Undefined, Undefined) EXCEPT !.old = f.id]
  /\ UNCHANGED << svcGetters, svcStore, initiated, llmConfig, aiServiceError, svcMount,
                  svcIssued, svcChanges >>
  /\ SvcFrame

\* The lookup of the config map answered: the end of fetchLLMConfigs.
SvcFetchedConfigMap(f, outcome) ==
  LET configMap == IF outcome = "found" THEN svcStore.configMap ELSE <<>>
      config == IF f.secret # <<>> /\ configMap # <<>>
                  THEN decodeLLMConfig(f.secret[1], configMap[1])
                  ELSE llmConfig
  IN  /\ f \in llmFetches /\ f.at = "configMap"
      /\ llmFetches' = llmFetches \ {f}
      /\ llmConfig' = config
      /\ aiServiceError' = IF config = <<>> THEN << SettingsMissingConfig >> ELSE aiServiceError
      /\ svcLast' = [SvcStep("find configmap", Undefined, Undefined) EXCEPT !.old = f.id]
      /\ UNCHANGED << svcGetters, svcStore, initiated, svcMount, svcIssued, svcChanges >>
      /\ SvcFrame

\* resetError
resetError ==
  /\ aiServiceError # <<>>
  /\ aiServiceError' = <<>>
  /\ svcLast' = SvcStep("resetError", Undefined, Undefined)
  /\ UNCHANGED << svcGetters, svcStore, initiated, llmConfig, svcMount, llmFetches,
                  svcIssued, svcChanges >>
  /\ SvcFrame

SvcInit ==
  /\ SvcConstructed
  /\ svcGetters \in SvcGetterSets
  /\ svcStore \in SvcStores
  /\ value = EmptyForm
  /\ readOnly = FALSE
  /\ formData = formDataComputed(value)
  /\ models = <<>>
  /\ modelValidation = [c \in ChatBotEnum |-> [status |-> VALIDATING, message |-> "", touched |-> FALSE]]
  /\ requests = {}
  /\ llmModelsAbortController = 0
  /\ issued = 0
  /\ timers = [fn \in DebouncedFns |-> <<>>]
  /\ mounted = FALSE
  /\ hasValidationErrors = FALSE
  /\ edits = 0
  /\ hist = [c \in ChatBotEnum |-> [id |-> 0, kind |-> "none", list |-> <<>>, msg |-> ""]]
  /\ burst = [fn \in DebouncedFns |-> <<>>]
  /\ last = NoStep
  /\ PageUntouched
  /\ SelUntouched

SvcNext ==
  \/ SvcOnMounted
  \/ \E ok \in BOOLEAN : SvcFetchedDeployments(ok)
  \/ \E d \in {<<>>} \cup { << st >> : st \in DeploymentStates } : SvcStoreChange(d)
  \/ \E f \in llmFetches, outcome \in FindOutcomes : SvcFetchedSecret(f, outcome)
  \/ \E f \in llmFetches, outcome \in FindOutcomes : SvcFetchedConfigMap(f, outcome)
  \/ resetError

SpecSvc == SvcInit /\ [][SvcNext]_vars


SelInit ==
  /\ SelConstructed
  /\ agentsProp \in AgentLists
  /\ agentName \in AgentNameProps
  /\ disabled \in BOOLEAN
  /\ value = EmptyForm
  /\ readOnly = FALSE
  /\ formData = formDataComputed(value)
  /\ models = <<>>
  /\ modelValidation = [c \in ChatBotEnum |-> [status |-> VALIDATING, message |-> "", touched |-> FALSE]]
  /\ requests = {}
  /\ llmModelsAbortController = 0
  /\ issued = 0
  /\ timers = [fn \in DebouncedFns |-> <<>>]
  /\ mounted = FALSE
  /\ hasValidationErrors = FALSE
  /\ edits = 0
  /\ hist = [c \in ChatBotEnum |-> [id |-> 0, kind |-> "none", list |-> <<>>, msg |-> ""]]
  /\ burst = [fn \in DebouncedFns |-> <<>>]
  /\ last = NoStep
  /\ PageUntouched
  /\ SvcUntouched

SelNext ==
  \/ \E list \in AgentLists : SelPropsAgents(list)
  \/ \E name \in AgentNameProps : SelPropsAgentName(name)
  \/ \E open \in BOOLEAN : SelUpdateOpen(open)
  \/ \E i \in 1..Len(options(agentsProp)) : SelClickOption(i)
  \/ debouncedSelectAgent

SpecSel == SelInit /\ [][SelNext]_vars

PageInit ==
  /\ PageConstructed
  /\ getters \in GetterSets
  /\ backend \in Backends
  /\ value = EmptyForm
  /\ readOnly = FALSE
  /\ formData = formDataComputed(value)
  /\ models = <<>>
  /\ modelValidation = [c \in ChatBotEnum |-> [status |-> VALIDATING, message |-> "", touched |-> FALSE]]
  /\ requests = {}
  /\ llmModelsAbortController = 0
  /\ issued = 0
  /\ timers = [fn \in DebouncedFns |-> <<>>]
  /\ mounted = FALSE
  /\ hasValidationErrors = FALSE
  /\ edits = 0
  /\ hist = [c \in ChatBotEnum |-> [id |-> 0, kind |-> "none", list |-> <<>>, msg |-> ""]]
  /\ burst = [fn \in DebouncedFns |-> <<>>]
  /\ last = NoStep
  /\ SvcUntouched
  /\ SelUntouched

PageNext ==
  \/ SettingsOnMounted
  \/ \E outcome \in FindOutcomes : FetchedDeployment(outcome)
  \/ \E outcome \in FindOutcomes : FetchedSecret(outcome)
  \/ \E outcome \in FindOutcomes : FetchedConfigMap(outcome)
  \/ \E outcome \in FindAllOutcomes : FetchedConfigCRDs(outcome)
  \/ \E key \in PageEditKeys, val \in PageEditVals : SettingsUpdateValue(key, val)
  \/ \E b \in BOOLEAN : SettingsValidationError(b)
  \/ \E list \in FormLists : ConfigsUpdateValue(list)
  \/ \E payloads \in SecretPayloads : ConfigsUpdateAuthenticationSecrets(payloads)
  \/ \E b \in BOOLEAN : ConfigsValidationError(b)
  \/ openApplySettingsDialog
  \/ ModalOpened
  \/ onCancel
  \/ onConfirm
  \/ \E ok \in BOOLEAN : SavedSettings(ok)
  \/ \E oc \in StepOutcomes : SavedAuthenticationSecrets(oc)
  \/ \E found \in FindAllOutcomes, oc \in StepOutcomes, shares \in BOOLEAN :
       SavedConfigCRDs(found, oc, shares)
  \/ \E outcome \in RedeployOutcomes : Redeployed(outcome)

SpecPage == PageInit /\ [][PageNext]_vars

\* A step of the page that is not the user's: onMounted runs, or a lookup of the
\* store is answered.
LookupAnswered ==
  \/ SettingsOnMounted
  \/ \E outcome \in FindOutcomes : FetchedDeployment(outcome)
  \/ \E outcome \in FindOutcomes : FetchedSecret(outcome)
  \/ \E outcome \in FindOutcomes : FetchedConfigMap(outcome)
  \/ \E outcome \in FindAllOutcomes : FetchedConfigCRDs(outcome)

\* The page from its construction until it has its data, with every lookup of
\* the store answered in the end. The events of the sections and of Apply are
\* left to SpecPage: they are offered only once Loading is no longer shown.
SpecPageLive == PageInit /\ [][LookupAnswered]_vars /\ WF_vars(LookupAnswered)

(***************************************************************************)
(* The settings form on its own: the page only hands it value and takes    *)
(* its events.                                                             *)
(***************************************************************************)
Init ==
  /\ value \in InitValues
  /\ readOnly \in BOOLEAN
  /\ formData = formDataComputed(value)
  /\ models = <<>>
  /\ modelValidation = [c \in ChatBotEnum |-> [status |-> VALIDATING, message |-> "", touched |-> FALSE]]
  /\ requests = {}
  /\ llmModelsAbortController = 0
  /\ issued = 0
  /\ timers = [fn \in DebouncedFns |-> <<>>]
  /\ mounted = FALSE
  /\ hasValidationErrors = FALSE
  /\ edits = 0
  /\ hist = [c \in ChatBotEnum |-> [id |-> 0, kind |-> "none", list |-> <<>>, msg |-> ""]]
  /\ burst = [fn \in DebouncedFns |-> <<>>]
  /\ last = NoStep
  /\ PageUntouched
  /\ SvcUntouched
  /\ SelUntouched

Next ==
  \/ onMounted /\ UNCHANGED pageVars /\ UNCHANGED svcVars /\ UNCHANGED selVars
  \/ \E val \in ChatBotEnum : updateChatbotValue(val) /\ UNCHANGED pageVars /\ UNCHANGED svcVars /\ UNCHANGED selVars
  \/ \E val \in EditVals : CallUpdateOllamaUrlValue(val) /\ UNCHANGED pageVars /\ UNCHANGED svcVars /\ UNCHANGED selVars
  \/ \E val \in EditVals : CallUpdateBedrockTokenValue(val) /\ UNCHANGED pageVars /\ UNCHANGED svcVars /\ UNCHANGED selVars
  \/ \E val \in EditVals : CallUpdateBedrockRegion(val) /\ UNCHANGED pageVars /\ UNCHANGED svcVars /\ UNCHANGED selVars
  \/ updateOllamaUrlValue /\ UNCHANGED pageVars /\ UNCHANGED svcVars /\ UNCHANGED selVars
  \/ updateBedrockTokenValue /\ UNCHANGED pageVars /\ UNCHANGED svcVars /\ UNCHANGED selVars
  \/ updateBedrockRegion /\ UNCHANGED pageVars /\ UNCHANGED svcVars /\ UNCHANGED selVars
  \/ \E key \in Settings, val \in EditVals \cup {"m1", "m2"} : UpdateValueInput(key, val) /\ UNCHANGED pageVars /\ UNCHANGED svcVars /\ UNCHANGED selVars
  \/ refreshModels /\ UNCHANGED pageVars /\ UNCHANGED svcVars /\ UNCHANGED selVars
  \/ \E r \in requests, list \in ModelLists : FetchResolved(r, list) /\ UNCHANGED pageVars /\ UNCHANGED svcVars /\ UNCHANGED selVars
  \/ \E r \in requests, detail \in Details : FetchRejected(r, detail) /\ UNCHANGED pageVars /\ UNCHANGED svcVars /\ UNCHANGED selVars
  \/ \E r \in requests : FetchAborted(r) /\ UNCHANGED pageVars /\ UNCHANGED svcVars /\ UNCHANGED selVars

Spec == Init /\ [][Next]_vars

\* What is not the user's to decide: the component is mounted, a started timer
\* expires, and a request gets its response (or its abort is delivered).
FormOthersUnchanged == UNCHANGED pageVars /\ UNCHANGED svcVars /\ UNCHANGED selVars

TimerExpires ==
  (updateOllamaUrlValue \/ updateBedrockTokenValue \/ updateBedrockRegion) /\ FormOthersUnchanged

RequestAnswered ==
  /\ \E r \in requests :
       \/ \E list \in ModelLists : FetchResolved(r, list)
       \/ \E detail \in Details : FetchRejected(r, detail)
       \/ FetchAborted(r)
  /\ FormOthersUnchanged

\* The form with every network request answered in the end.
SpecLive ==
  /\ Init /\ [][Next]_vars
  /\ WF_vars(onMounted /\ FormOthersUnchanged)
  /\ WF_vars(TimerExpires)
  /\ WF_vars(RequestAnswered)

(***************************************************************************)
(* The pure functions on their own: the page hands the form any record of  *)
(* FnForms and the validator runs on the derived form.                     *)
(***************************************************************************)
\* Keys that getActiveChatbot and validateSettings read, besides ACTIVE_LLM.
FnKeys ==
  { OLLAMA_URL, OPENAI_API_KEY, GOOGLE_API_KEY, AWS_BEARER_TOKEN_BEDROCK, AWS_REGION,
    OLLAMA_MODEL, OPENAI_MODEL, GEMINI_MODEL, BEDROCK_MODEL }

\* ACTIVE_LLM: missing, each provider, and a name the form does not know.
FnActive == {""} \cup ChatBotEnum \cup {"BEDROCK"}

FnForms ==
  { [k \in Settings |-> IF k = ACTIVE_CHATBOT THEN a ELSE IF k \in S THEN "x" ELSE ""] :
      a \in FnActive, S \in SUBSET FnKeys }

FnInit ==
  /\ value \in FnForms
  /\ readOnly = FALSE
  /\ formData = formDataComputed(value)
  /\ models = <<>>
  /\ modelValidation = [c \in ChatBotEnum |-> [status |-> VALIDATING, message |-> "", touched |-> FALSE]]
  /\ requests = {}
  /\ llmModelsAbortController = 0
  /\ issued = 0
  /\ timers = [fn \in DebouncedFns |-> <<>>]
  /\ mounted = FALSE
  /\ hasValidationErrors = FALSE
  /\ edits = 0
  /\ hist = [c \in ChatBotEnum |-> [id |-> 0, kind |-> "none", list |-> <<>>, msg |-> ""]]
  /\ burst = [fn \in DebouncedFns |-> <<>>]
  /\ last = NoStep
  /\ PageUntouched
  /\ SvcUntouched
  /\ SelUntouched

\* The value prop changes in one key: the computed formData is re-evaluated.
FnSetProps(k, v) ==
  /\ value' = [value EXCEPT ![k] = v]
  /\ formData' = formDataComputed(value')
  /\ last' = [NoStep EXCEPT !.op = "props"]
  /\ UNCHANGED << readOnly, models, modelValidation, requests, llmModelsAbortController,
                  issued, timers, mounted, hasValidationErrors, edits, hist, burst >>

\* validateSettings(formData) runs and emits update:validation-error.
FnValidate ==
  /\ hasValidationErrors' = validateSettings(formData)
  /\ last' = [NoStep EXCEPT !.op = "validateSettings", !.verrs = <<validateSettings(formData)>>]
  /\ UNCHANGED << value, readOnly, formData, models, modelValidation, requests,
                  llmModelsAbortController, issued, timers, mounted, edits, hist, burst >>

FnNext ==
  \/ \E k \in FnKeys, v \in {"", "x"} : FnSetProps(k, v) /\ UNCHANGED pageVars /\ UNCHANGED svcVars /\ UNCHANGED selVars
  \/ \E v \in FnActive : FnSetProps(ACTIVE_CHATBOT, v) /\ UNCHANGED pageVars /\ UNCHANGED svcVars /\ UNCHANGED selVars
  \/ FnValidate /\ UNCHANGED pageVars /\ UNCHANGED svcVars /\ UNCHANGED selVars

SpecFn == FnInit /\ [][FnNext]_vars

(***************************************************************************)
(* Properties.                                                             *)
(***************************************************************************)
Pending(c) == { r \in requests : r.name = c /\ r.state = "pending" }

\* Some request of a step's own provider was settled in the step that led here.
SettledName == last.settled[1].name

\* The text fetchModels stores for a failure with the given detail.
ErrorMessage(detail) == IF detail # "" THEN detail ELSE ValidationFailedLabel

\* C1, state part: per provider at most one request is in flight and not
\* superseded, and the provider's status, message and cached list are those of
\* the most recently issued fetch: validating with an empty list while it is in
\* flight, its list with success once it resolved, error with its message once
\* it was rejected.
C1_LatestWins ==
  \A c \in ChatBotEnum :
    /\ Cardinality(Pending(c)) <= 1
    /\ hist[c].kind = "pending" =>
         /\ modelValidation[c].status = VALIDATING /\ modelValidation[c].message = ""
         /\ c \in DOMAIN models /\ models[c] = <<>>
    /\ hist[c].kind = "ok" =>
         /\ modelValidation[c].status = SUCCESS /\ modelValidation[c].message = ""
         /\ c \in DOMAIN models /\ models[c] = hist[c].list
    /\ hist[c].kind = "err" =>
         /\ modelValidation[c].status = ERROR
         /\ modelValidation[c].message = ErrorMessage(hist[c].msg)
         /\ c \in DOMAIN models /\ models[c] = <<>>

\* C1, step part: the continuation of a request that is not the latest one issued
\* for its provider changes neither the validation state nor the models cache.
C1_StaleStep ==
  (last'.settled # <<>> /\ last'.settled[1].id # hist[last'.settled[1].name].id)
    => (modelValidation' = modelValidation /\ models' = models)

\* C1: a model fetch that completes or is cancelled after a newer fetch for the
\* same provider was issued never changes what the newer fetch set; the state of
\* a provider reflects its most recently issued fetch, and at most one
\* non-superseded request per provider is in flight.
C1_StaleFetchNeverOverwrites == [](C1_LatestWins) /\ [][C1_StaleStep]_vars

\* C1 witness: the continuation of a superseded Local request has just run while
\* the newer Local request is still in flight.
C1_Witness ==
  /\ last.op = "aborted"
  /\ Pending(SettledName) # {}
  /\ hist[SettledName].id > last.settled[1].id

\* C2 (as claimed): the latest fetch issued for a provider is never cancelled: it
\* ends by its own response, whatever is fetched for other providers meanwhile.
C2_OtherProviderFetchSurvives ==
  \A c \in ChatBotEnum : hist[c].kind # "aborted"

\* The resolution rule as the claim states it.
RefActiveChatbot(v) ==
  IF v[ACTIVE_CHATBOT] \in {Gemini, OpenAI, Local, Bedrock} THEN v[ACTIVE_CHATBOT]
  ELSE IF v[AWS_BEARER_TOKEN_BEDROCK] # "" THEN Bedrock
  ELSE IF v[OPENAI_API_KEY] # "" THEN OpenAI
  ELSE IF v[GOOGLE_API_KEY] # "" THEN Gemini
  ELSE IF v[OLLAMA_URL] # "" THEN Local
  ELSE Local

\* C3: the provider the form resolves for the value it was given is the one the
\* reference rule gives: a known ACTIVE_LLM unchanged, else the first non-empty
\* credential in the order Bedrock token, OpenAI key, Gemini key, Ollama URL,
\* else Local.
C3_ResolvesAsReference ==
  /\ formData[ACTIVE_CHATBOT] = RefActiveChatbot(value)
  /\ getActiveChatbot(value) = RefActiveChatbot(value)

\* C3 witness: ACTIVE_LLM is unknown to the form, the OpenAI and Gemini keys are
\* both set, no Bedrock token: OpenAI.
C3_Witness ==
  /\ last.op = "props"
  /\ value[ACTIVE_CHATBOT] = "BEDROCK"
  /\ value[AWS_BEARER_TOKEN_BEDROCK] = ""
  /\ value[OPENAI_API_KEY] # "" /\ value[GOOGLE_API_KEY] # "" /\ value[OLLAMA_URL] # ""
  /\ formData[ACTIVE_CHATBOT] = OpenAI

\* C4: resolving the derived form view (the record with ACTIVE_LLM replaced by
\* the resolved provider) gives that same provider again.
C4_ResolutionIdempotent ==
  /\ getActiveChatbot(formDataComputed(value)) = getActiveChatbot(value)
  /\ getActiveChatbot(formData) = formData[ACTIVE_CHATBOT]
  /\ formDataComputed(formData) = formData

\* C4 witness: the provider came from the fallback (no ACTIVE_LLM, a Gemini key).
C4_Witness ==
  /\ last.op = "props"
  /\ value[ACTIVE_CHATBOT] = ""
  /\ value[GOOGLE_API_KEY] # ""
  /\ formData[ACTIVE_CHATBOT] = Gemini

\* The validity rule as the claim states it.
RefModelField(c) ==
  CASE c = Local -> OLLAMA_MODEL
    [] c = OpenAI -> OPENAI_MODEL
    [] c = Gemini -> GEMINI_MODEL
    [] c = Bedrock -> BEDROCK_MODEL

RefCredentials(c) ==
  CASE c = Local -> {OLLAMA_URL}
    [] c = OpenAI -> {OPENAI_API_KEY}
    [] c = Gemini -> {GOOGLE_API_KEY}
    [] c = Bedrock -> {AWS_BEARER_TOKEN_BEDROCK, AWS_REGION}

RefHasError(form) ==
  \E k \in RefCredentials(form[ACTIVE_CHATBOT]) \cup {RefModelField(form[ACTIVE_CHATBOT])} :
    form[k] = ""

\* C5: validateSettings signals an error exactly when a required credential of
\* the active provider or its model field is empty, and no field of another
\* provider changes the result.
C5_ValidatorMatchesRule ==
  /\ last.op = "validateSettings" =>
       /\ last.verrs = << RefHasError(formData) >>
       /\ hasValidationErrors = RefHasError(formData)
  /\ \A k \in Settings \ ( {ACTIVE_CHATBOT} \cup RefCredentials(formData[ACTIVE_CHATBOT])
                           \cup {RefModelField(formData[ACTIVE_CHATBOT])} ) :
       \A v \in {"", "zz"} :
         validateSettings([formData EXCEPT ![k] = v]) = validateSettings(formData)

\* C5 witness: Bedrock with token and model but no region is invalid.
C5_Witness ==
  /\ last.op = "validateSettings"
  /\ formData[ACTIVE_CHATBOT] = Bedrock
  /\ formData[AWS_BEARER_TOKEN_BEDROCK] # "" /\ formData[BEDROCK_MODEL] # ""
  /\ formData[AWS_REGION] = ""
  /\ hasValidationErrors

\* C6, step part: a provider switch emits the value with ACTIVE_LLM = P in the
\* same step (no timer is started) and issues one fetch for P exactly when P had
\* no cache entry; cache entries are never removed.
C6_SwitchStep ==
  /\ last'.op = "updateChatbotValue" =>
       /\ Len(last'.emitted) = 1
       /\ last'.emitted[1][ACTIVE_CHATBOT] = last'.val
       /\ value' = last'.emitted[1]
       /\ timers' = timers
       /\ IF last'.val \notin DOMAIN models
            THEN /\ Len(last'.fetched) = 1 /\ last'.fetched[1].name = last'.val
                 /\ issued' = issued + 1
            ELSE /\ last'.fetched = <<>> /\ issued' = issued /\ requests' = requests
  /\ DOMAIN models \subseteq DOMAIN models'
  /\ last'.fetched # <<>> => last'.fetched[1].name \in DOMAIN models'

\* C6: switching the provider emits at once and fetches only on a cache miss.
C6_SwitchFetchesOnCacheMiss == [][C6_SwitchStep]_vars

\* C6 witness: a switch to a provider whose cache entry is the empty list issued
\* no fetch.
C6_Witness ==
  /\ last.op = "updateChatbotValue"
  /\ last.fetched = <<>>
  /\ last.val \in DOMAIN models /\ models[last.val] = <<>>
  /\ issued >= 2

\* C7, step part: a call of a debounced function emits nothing and issues no
\* request; when the Ollama URL timer fires exactly one value is emitted and one
\* request issued, both with the last argument of the burst.
C7_BurstStep ==
  /\ last'.op = "call" =>
       /\ last'.emitted = <<>> /\ last'.verrs = <<>> /\ last'.fetched = <<>>
       /\ value' = value /\ requests' = requests /\ issued' = issued
       /\ hasValidationErrors' = hasValidationErrors
  /\ last'.op = "updateOllamaUrlValue" =>
       /\ burst["updateOllamaUrlValue"] # <<>>
       /\ burst'["updateOllamaUrlValue"] = <<>> /\ timers'["updateOllamaUrlValue"] = <<>>
       /\ Len(last'.emitted) = 1
       /\ last'.emitted[1][OLLAMA_URL]
            = burst["updateOllamaUrlValue"][Len(burst["updateOllamaUrlValue"])]
       /\ Len(last'.fetched) = 1 /\ issued' = issued + 1
       /\ last'.fetched[1].name = Local
       /\ last'.fetched[1].url
            = burst["updateOllamaUrlValue"][Len(burst["updateOllamaUrlValue"])]

FireOps == {"updateOllamaUrlValue", "updateBedrockTokenValue", "updateBedrockRegion"}

\* C8 (as claimed): every debounced path, when it fires, emits the value and
\* issues a fetch for its provider.
C8_EveryPathRefetches ==
  last.op \in FireOps =>
    /\ Len(last.emitted) = 1
    /\ Len(last.fetched) = 1
    /\ last.fetched[1].name = (IF last.op = "updateOllamaUrlValue" THEN Local ELSE Bedrock)

\* C8, amended, step part: the region path fetches only when the form had a
\* region before the edit.
C8_FireStep ==
  /\ last'.op \in FireOps =>
       /\ Len(last'.emitted) = 1 /\ last'.emitted[1][last'.key] = last'.val
       /\ value' = last'.emitted[1]
  /\ last'.op = "updateOllamaUrlValue" =>
       /\ Len(last'.fetched) = 1
       /\ last'.fetched[1].name = Local /\ last'.fetched[1].url = last'.val
  /\ last'.op = "updateBedrockTokenValue" =>
       /\ Len(last'.fetched) = 1
       /\ last'.fetched[1].name = Bedrock /\ last'.fetched[1].bearerToken = last'.val
       /\ last'.fetched[1].region = formData[AWS_REGION]
  /\ last'.op = "updateBedrockRegion" =>
       IF formData[AWS_REGION] # ""
         THEN /\ Len(last'.fetched) = 1
              /\ last'.fetched[1].name = Bedrock /\ last'.fetched[1].region = last'.val
              /\ last'.fetched[1].bearerToken = formData[AWS_BEARER_TOKEN_BEDROCK]
         ELSE /\ last'.fetched = <<>> /\ requests' = requests /\ issued' = issued
              /\ modelValidation' = modelValidation

\* C8 amended: the Ollama URL and Bedrock token paths emit and re-fetch with the
\* new value; the Bedrock region path emits the new value and re-fetches with it
\* only when the form's region was non-empty before the edit.
C8_RegionRefetchesOnlyIfRegionWasSet == [][C8_FireStep]_vars

\* C8 witness: the region path fired on a form without region: emitted, not fetched.
C8_Witness ==
  /\ last.op = "updateBedrockRegion"
  /\ last.val = "b" /\ value[AWS_REGION] = "b"
  /\ last.fetched = <<>>

UpdateOps == FireOps \cup {"updateChatbotValue", "updateValue"}

\* C9: every edit emits the form before the edit with only the edited key
\* changed, the page receives it, and the validation signal is the rule applied
\* to that snapshot; the value is emitted whether or not it is valid.
C9_EditStep ==
  last'.op \in UpdateOps =>
    /\ last'.emitted = << [formData EXCEPT ![last'.key] = last'.val] >>
    /\ value' = last'.emitted[1]
    /\ last'.verrs = << RefHasError(last'.emitted[1]) >>
    /\ hasValidationErrors' = RefHasError(last'.emitted[1])

C10_RejectStep ==
  last'.op = "rejected" =>
    LET c == last'.settled[1].name
    IN  /\ modelValidation'[c].status = ERROR
        /\ modelValidation'[c].message # ""
        /\ modelValidation'[c].message = ErrorMessage(last'.val)
        /\ modelValidation'[c].touched = modelValidation[c].touched
        /\ IF modelValidation[c].touched
             THEN formData' = [formData EXCEPT ![RefModelField(c)] = ""]
             ELSE formData' = formData

\* C10: a fetch that fails for a reason other than cancellation sets its provider
\* to error with a non-empty message, and clears the provider's selected model
\* exactly when the provider was touched.
C10_HardFailureSetsError == [][C10_RejectStep]_vars

\* C10 witness: a touched provider with a selected model failed: the form's
\* model field is empty now.
C10_Witness ==
  /\ last.op = "rejected"
  /\ modelValidation[SettledName].touched
  /\ modelValidation[SettledName].status = ERROR
  /\ value[RefModelField(SettledName)] # ""
  /\ formData[RefModelField(SettledName)] = ""

\* C11, step part: what a successful response leaves behind.
C11_ResolveStep ==
  last'.op = "resolved" =>
    LET c    == last'.settled[1].name
        key  == RefModelField(c)
        list == hist'[c].list
    IN  /\ hist'[c].id = last'.settled[1].id /\ hist'[c].kind = "ok"
        /\ c \in DOMAIN models' /\ models'[c] = list
        /\ modelValidation'[c].status = SUCCESS
        /\ (formData[key] = "" /\ list # <<>>) => formData' = [formData EXCEPT ![key] = list[1]]
        /\ (formData[key] # "" \/ list = <<>>) => formData' = formData
        /\ hasValidationErrors' = RefHasError(formData')

\* C11: a successful fetch for a provider stores the returned list in order and
\* sets success; an empty model field of that provider takes the first returned
\* model, a non-empty one is kept; the validator then runs on the form with that
\* model field.
C11_SuccessStoresListAndDefault == [][C11_ResolveStep]_vars

\* C11 witness: a response with models arrived for a provider whose model field
\* was empty, and the first model was adopted.
C11_Witness ==
  /\ last.op = "resolved"
  /\ hist[SettledName].list = <<"m1", "m2">>
  /\ models[SettledName] = <<"m1", "m2">>
  /\ value[RefModelField(SettledName)] = ""
  /\ formData[RefModelField(SettledName)] = "m1"

(***************************************************************************)
(* Properties of the settings page.                                        *)
(***************************************************************************)
LogHas(entry) == \E i \in 1..Len(log) : log[i] = entry

\* C12, state part: once the deployment is known to be absent the page shows
\* the warning and has asked the store for nothing but the deployment, once.
C12_AbsentState ==
  (~isLoading /\ aiAgentDeployment = <<>>) =>
    /\ NoDeploymentShown
    /\ permissions = <<>>
    /\ pending = {}
    /\ aiAgentSettings = <<>> /\ aiAgentConfigCRDs = <<>>
    /\ log = << "find deployment" >>
    /\ dialog = "closed" /\ savePc.at = "idle"

\* C12, step part: a deployment lookup that rejects or finds nothing ends Loading
\* with a null deployment.
C12_AbsentStep ==
  (pageLast'.op = "FetchedDeployment" /\ pageLast'.outcome # "found") =>
    ~isLoading' /\ aiAgentDeployment' = <<>>

\* C12: on mount the deployment is looked up once; when the lookup fails or
\* finds nothing the page leaves Loading, shows the no-deployment warning and
\* never computes permissions nor fetches settings or agent-config resources.
C12_NoDeploymentIsTerminal == [](C12_AbsentState) /\ [][C12_AbsentStep]_vars

\* C12 witness: the lookup found nothing and the warning is shown.
C12_Witness ==
  /\ pageLast.op = "FetchedDeployment" /\ pageLast.outcome = "null"
  /\ NoDeploymentShown
  /\ permissions = <<>>

\* C13 (as claimed): a resource type is looked up in the store only when the
\* caller may list it.
C13_OnlyListedResourcesRequested ==
  /\ (LogHas("find secret") \/ LogHas("find configmap")) => getters.canList[SECRET]
  /\ LogHas("findAll aiagentconfig") => getters.canList[AI_AGENT_CONFIG]

\* The permissions the caller holds, as the store tells them.
CanCreateSecrets == canPut(getters.schemaFor[SECRET])

CanCreateCRDs == canPut(getters.schemaFor[AI_AGENT_CONFIG])

CanListSecrets == getters.canList[SECRET]

CanListCRDs == getters.canList[AI_AGENT_CONFIG]

\* The log entries of operations that create, save or remove an agent's auth
\* secret or agent-config resource, and of the failures save() can log.
AgentResourceOps ==
  { "create secret", "save secret", "create aiagentconfig", "save aiagentconfig",
    "remove aiagentconfig", "create secret:failed", "save secret:failed",
    "create aiagentconfig:failed", "save aiagentconfig:failed", "remove aiagentconfig:failed" }

FailureEntries ==
  { "saveAgentSettings:failed", "create secret:failed", "save secret:failed",
    "create aiagentconfig:failed", "save aiagentconfig:failed", "remove aiagentconfig:failed",
    "find deployment:failed", "save deployment:failed" }

LogFailed == \E i \in 1..Len(log) : log[i] \in FailureEntries

\* The index of the first occurrence of an entry in the log, 0 if none.
LogIndex(entry) ==
  IF LogHas(entry) THEN CHOOSE i \in 1..Len(log) : log[i] = entry /\ \A j \in 1..(i - 1) : log[j] # entry
  ELSE 0

\* save() was started by the last confirmation and has returned.
SaveFinished == LogHas("save") /\ savePc.at = "idle"

C15_EachStepGatedByItsOwnPermission ==
  (SaveFinished /\ ~LogFailed) =>
    /\ LogHas("saveAgentSettings") <=> CanCreateSecrets
    /\ LogHas("findAll aiagentconfig") <=> CanCreateCRDs
    /\ LogHas("find deployment")

\* C16 (as claimed): a save() in which an operation failed has stopped at that
\* operation and called the button back with false; the callback gets true only
\* when no operation failed.
C16_AnyFailedStepAbortsSave ==
  SaveFinished =>
    /\ LogFailed => /\ btnCB = << FALSE >>
                    /\ log[Len(log)] \in FailureEntries
                    /\ Cardinality({ i \in 1..Len(log) : log[i] \in FailureEntries }) = 1
    /\ btnCB = << TRUE >> => ~LogFailed

\* C17 (as claimed), state part: a save() that failed has written nothing into
\* the page's agent-config list.
C17_FailedSaveWroteNothing ==
  (SaveFinished /\ btnCB = << FALSE >>) => ~LogHas("write aiAgentConfigCRDs")

\* C17, step part: save() never touches the settings record; a failing step sets
\* the banner, and a set banner is cleared only by a settings edit or by a save
\* that ends well.
C17_BannerStep ==
  /\ pageLast'.op \in {"onConfirm", "SavedSettings", "SavedAuthenticationSecrets",
                       "SavedConfigCRDs", "Redeployed"} => aiAgentSettings' = aiAgentSettings
  /\ pageLast'.failed => apiError' # ""
  /\ (apiError # "" /\ apiError' = "") =>
       \/ pageLast'.op = "update:value" /\ pageLast'.outcome \in PageEditKeys
       \/ savePc'.at = "idle" /\ btnCB' = Append(btnCB, TRUE)

\* C17 (as claimed): after a failed save the settings record and the
\* agent-config list are as the user left them, and the banner stays until the
\* next settings edit or the next save that succeeds.
C17_FailedSaveKeepsInput == [](C17_FailedSaveWroteNothing) /\ [][C17_BannerStep]_vars

\* C18, step part: what each lookup leaves behind when it fails.
C18_LookupStep ==
  LET op == pageLast'.op
      missing == pageLast'.outcome # "found"
  IN  /\ (op = "FetchedDeployment" /\ missing) => aiAgentDeployment' = <<>>
      /\ op = "FetchedSecret" =>
           settingsFormData' =
             IF missing THEN <<>>
             ELSE [k \in DOMAIN backend.secret |-> base64Decode(backend.secret[k])]
      /\ op = "FetchedConfigMap" =>
           aiAgentSettings' =
             << IF missing THEN settingsFormData
                ELSE [k \in DOMAIN settingsFormData \cup DOMAIN backend.configMap |->
                        IF k \in DOMAIN backend.configMap THEN backend.configMap[k]
                        ELSE settingsFormData[k]] >>
      /\ (op = "FetchedConfigCRDs" /\ missing) => aiAgentConfigCRDs' = << <<>> >>
      /\ (op = "Redeployed" /\ pageLast'.outcome \in {"findRejects", "findNull"}) =>
           /\ ~pageLast'.failed
           /\ savePc'.at = "idle" /\ btnCB' = Append(btnCB, TRUE) /\ apiError' = ""
           /\ backend' = backend
      /\ op \in {"FetchedDeployment", "FetchedSecret", "FetchedConfigMap", "FetchedConfigCRDs"} =>
           /\ ~pageLast'.failed
           /\ apiError' = apiError /\ btnCB' = btnCB

\* C18: a lookup that fails or finds nothing is not thrown to the UI: the
\* deployment is null, the settings record holds only what was found (nothing if
\* neither the secret nor the config map was), the agent-config list is empty,
\* and redeployAiAgent returns normally.
C18_FailedLookupsDegradeToEmpty == [][C18_LookupStep]_vars

\* C18 witness: the store holds a secret and a config map, both lookups failed,
\* and the settings record is the empty record.
C18_Witness ==
  /\ pageLast.op = "FetchedConfigMap" /\ pageLast.outcome = "rejects"
  /\ backend.secret # <<>> /\ backend.configMap # <<>>
  /\ aiAgentSettings = << <<>> >>

\* C19, step part: a click opens the dialog only with both validation flags
\* down and a create permission held, and save() starts only with both flags
\* down.
C19_Step ==
  LET outstanding == hasAiAgentSettingsValidationErrors \/ hasAiAgentConfigsValidationErrors
  IN  /\ pageLast'.op = "openApplySettingsDialog" =>
           ~outstanding /\ (CanCreateSecrets \/ CanCreateCRDs)
      /\ pageLast'.op = "onConfirm" => ~outstanding

\* C19 (as claimed): the Apply action is offered only with a create permission
\* and is disabled while the last validation signal of either section is true,
\* so save() never starts while a validation error is outstanding.
C19_NoSaveWhileInvalid == [][C19_Step]_vars

\* The number of times save() was entered, by the log.
SaveCount(lg) == Cardinality({ i \in 1..Len(lg) : lg[i] = "save" })

\* C20, step part: what a click, the opening of the modal, a confirmation and a
\* cancellation do to the store, to save() and to the button.
C20_DialogStep ==
  LET op == pageLast'.op
  IN  /\ SaveCount(log') > SaveCount(log) => op = "onConfirm"
      /\ (savePc.at = "idle" /\ savePc'.at # "idle") => op = "onConfirm"
      /\ backend' # backend => savePc.at # "idle"
      /\ op \in {"openApplySettingsDialog", "modal.open"} =>
           /\ backend' = backend /\ savePc'.at = "idle"
           /\ SaveCount(log') = 0 /\ btnCB' = <<>>
      /\ op = "onConfirm" =>
           /\ dialog = "open" /\ dialog' = "closed"
           /\ SaveCount(log') = SaveCount(log) + 1
      /\ op = "onCancel" =>
           /\ dialog = "open" /\ dialog' = "closed"
           /\ backend' = backend /\ log' = log /\ savePc'.at = "idle"
           /\ apiError' = apiError
           /\ btnCB' = Append(btnCB, TRUE)

\* C20: save() is entered only by the confirmation of the Apply dialog, once per
\* confirmation; the click and the opening of the dialog write nothing to the
\* store; a cancellation writes nothing, starts no redeploy and calls the
\* button's callback.
C20_SaveOnlyOnConfirm ==
  [](savePc.at # "idle" => SaveCount(log) = 1 /\ dialog = "closed")
    /\ [][C20_DialogStep]_vars

\* C20 witness: the dialog was confirmed, save() waits for the settings to be
\* persisted, and the store does not hold them yet.
C20_Witness ==
  /\ pageLast.op = "onConfirm"
  /\ savePc.at = "saveSettings"
  /\ SaveCount(log) = 1
  /\ backend.saved = <<>>
  /\ btnCB = <<>>

\* C21, step part: the record save() hands to saveSettings, and what a
\* successful saveSettings stores.
C21_PayloadStep ==
  /\ (pageLast'.op = "onConfirm" /\ pageLast'.outcome = "saveSettings") =>
       /\ DOMAIN savePc'.payload = Settings
       /\ \A key \in Settings :
            savePc'.payload[key] =
              IF key \in DOMAIN aiAgentSettings[1] THEN aiAgentSettings[1][key] ELSE ""
  /\ (pageLast'.op = "SavedSettings" /\ pageLast'.outcome = "ok") =>
       backend'.saved = << savePc.payload >>

\* C21: saveAgentSettings sends one entry for every key of the Settings
\* enumeration and no other key; an entry is the form's value for the key, or
\* the empty string when the form has none.
C21_PayloadIsFullSettingsRecord ==
  [](savePc.at = "saveSettings" => DOMAIN savePc.payload = Settings)
    /\ [][C21_PayloadStep]_vars

\* C21 witness: a payload is on its way for a form that lacks some Settings keys
\* and holds a key that is not one of them.
C21_Witness ==
  /\ savePc.at = "saveSettings"
  /\ aiAgentSettings # <<>>
  /\ DOMAIN aiAgentSettings[1] \ Settings # {}
  /\ Settings \ DOMAIN aiAgentSettings[1] # {}
  /\ savePc.payload[OPENAI_MODEL] # ""
  /\ savePc.payload[AWS_REGION] = ""

\* Before initiation the computed is undefined, the watch has not run and no
\* lookup of the LLM configuration was dispatched.
C22_UndefinedUntilInitiated ==
  ~initiated =>
    /\ aiAgentDeploymentState(initiated, svcStore) = Undefined
    /\ svcIssued = 0 /\ llmFetches = {} /\ llmConfig = <<>>
    /\ aiServiceError \in { <<>>, << DeploymentNoPermission >> }

\* A step in which the state of the deployment changed to not-found sets the
\* not-found error and starts no lookup.
C22_NotFoundStep ==
  (svcLast'.fired /\ svcLast'.new = NotFound) =>
    /\ aiServiceError' = << DeploymentNotFound >>
    /\ llmFetches' = llmFetches /\ svcIssued' = svcIssued

\* C22 (as claimed), step part: a step in which the state changed to that of an
\* existing deployment clears the error and starts the lookup of the secret.
C22_ExistsStep ==
  (svcLast'.fired /\ svcLast'.new \in DeploymentStates) =>
    /\ aiServiceError' = <<>>
    /\ \E f \in llmFetches' \ llmFetches : f.at = "secret"

C22_ExistsStepPermitted ==
  (svcLast'.fired /\ svcLast'.new \in DeploymentStates) =>
    IF svcGetters.canList[SECRET] /\ svcGetters.canList[CONFIG_MAP]
      THEN /\ aiServiceError' = <<>>
           /\ \E f \in llmFetches' \ llmFetches : f.at = "secret"
      ELSE /\ aiServiceError' = << SettingsNoPermission >>
           /\ llmFetches' = llmFetches /\ svcIssued' = svcIssued

C23_ReadOnlyStep ==
  readOnly =>
    /\ last'.emitted = <<>>
    /\ value' = value
    /\ timers' = timers
    /\ last'.op \in {"onMounted", "refreshModels", "resolved", "rejected", "aborted"}

C24_AbortStep ==
  last'.op = "aborted" =>
    LET c == last'.settled[1].name
    IN  /\ modelValidation'[c].status = VALIDATING
        /\ modelValidation'[c].message = ""
        /\ modelValidation'[c].touched = modelValidation[c].touched
        /\ formData'[RefModelField(c)] = formData[RefModelField(c)]
        /\ formData' = formData

\* C24: a model fetch that ends with AbortError leaves its provider validating
\* with an empty message and does not clear the provider's selected model,
\* touched or not.
C24_AbortIsNotAnError == [][C24_AbortStep]_vars

\* C24 witness: the request of a touched provider with a selected model was
\* aborted, and the model is still selected.
C24_Witness ==
  /\ last.op = "aborted"
  /\ modelValidation[SettledName].touched
  /\ modelValidation[SettledName].status = VALIDATING
  /\ formData[RefModelField(SettledName)] # ""

\* C25 (as claimed), step part: the completion of an aborted request emits no
\* validation-error signal and changes neither the form nor the models cache.
C25_AbortStep ==
  last'.op = "aborted" =>
    /\ last'.verrs = <<>>
    /\ hasValidationErrors' = hasValidationErrors
    /\ formData' = formData
    /\ models' = models

\* C25 (as claimed): a superseded model fetch is ignored: its completion emits
\* no validation-error signal, does not reconcile the form's model field and
\* does not change the models cache.
C25_AbortedFetchIsSilent == [][C25_AbortStep]_vars

\* The fields whose edits are debounced.
DebouncedKeys == {OLLAMA_URL, AWS_BEARER_TOKEN_BEDROCK, AWS_REGION}

\* C26, step part: an edit that goes to updateValue directly.
C26_DirectStep ==
  last'.op = "updateValue" =>
    /\ last'.key \in Settings \ (DebouncedKeys \cup {ACTIVE_CHATBOT})
    /\ last'.emitted = << [formData EXCEPT ![last'.key] = last'.val] >>
    /\ last'.verrs = << RefHasError(last'.emitted[1]) >>
    /\ last'.fetched = <<>>
    /\ issued' = issued /\ requests' = requests
    /\ llmModelsAbortController' = llmModelsAbortController
    /\ models' = models
    /\ modelValidation' = modelValidation
    /\ timers' = timers

\* C26: an edit of a field other than the Ollama URL, the Bedrock token and the
\* Bedrock region emits and validates in the same step, issues no model fetch
\* and leaves the models cache and every provider's validation state alone.
C26_DirectEditsDoNotRefetch == [][C26_DirectStep]_vars

\* C26 witness: the API key was edited while a model fetch was awaited; the
\* request is still awaited.
C26_Witness ==
  /\ last.op = "updateValue"
  /\ last.key \in {OPENAI_API_KEY, GOOGLE_API_KEY}
  /\ \E r \in requests : r.state = "pending"
  /\ last.emitted # <<>> /\ last.verrs # <<>>

\* The handlers that mark their provider touched before they call fetchModels.
TouchOps == FireOps \cup {"refreshModels"}

\* C27, step part: a step that issues a model fetch for a provider.
C27_FetchStartStep ==
  last'.fetched # <<>> =>
    LET P == last'.fetched[1].name
    IN  /\ P \in DOMAIN models' /\ models'[P] = <<>>
        /\ modelValidation'[P].status = VALIDATING
        /\ modelValidation'[P].message = ""
        /\ modelValidation'[P].touched = (modelValidation[P].touched \/ last'.op \in TouchOps)
        /\ \A c \in ChatBotEnum \ {P} :
             /\ modelValidation'[c] = modelValidation[c]
             /\ (c \in DOMAIN models') = (c \in DOMAIN models)
             /\ c \in DOMAIN models => models'[c] = models[c]
        /\ last'.fetched[1].state = "pending"

\* C27: when fetchModels(P) issues its request the cache entry of P is the empty
\* list and P is validating with an empty message; fetchModels leaves P's touched
\* flag and the other providers' cache entries and validation states alone.
C27_FetchStartClearsProvider == [][C27_FetchStartStep]_vars

\* C27 witness: a fetch was issued for a provider and is awaited, while another
\* provider's models are cached.
C27_Witness ==
  /\ last.fetched # <<>>
  /\ models[last.fetched[1].name] = <<>>
  /\ modelValidation[last.fetched[1].name].status = VALIDATING
  /\ hist[last.fetched[1].name].kind = "pending"
  /\ \E c \in DOMAIN models : c # last.fetched[1].name /\ models[c] # <<>>

\* The provider a touching handler marks.
TouchedBy(op, form) ==
  CASE op = "updateOllamaUrlValue" -> Local
    [] op \in {"updateBedrockTokenValue", "updateBedrockRegion"} -> Bedrock
    [] OTHER -> form[ACTIVE_CHATBOT]

\* C28, state part: before onMounted every provider is validating, without
\* message and untouched; an error banner is shown only for a touched provider in
\* error.
C28_CreatedAndBanner ==
  /\ ~mounted =>
       \A c \in ChatBotEnum :
         modelValidation[c] = [status |-> VALIDATING, message |-> "", touched |-> FALSE]
  /\ DOMAIN modelValidation = ChatBotEnum
  /\ \A c \in ChatBotEnum :
       ErrorBannerShown(c) => modelValidation[c].touched /\ modelValidation[c].status = ERROR

\* C28, step part: touched changes only to true, only in a user-initiated
\* handler and only for that handler's provider.
C28_TouchedStep ==
  \A c \in ChatBotEnum :
    /\ modelValidation[c].touched => modelValidation'[c].touched
    /\ modelValidation'[c].touched # modelValidation[c].touched =>
         last'.op \in TouchOps /\ c = TouchedBy(last'.op, formData)
    /\ last'.op \in {"onMounted", "updateChatbotValue", "resolved", "rejected", "aborted"} =>
         modelValidation'[c].touched = modelValidation[c].touched

\* C28: providers start validating, without message and untouched; touched
\* becomes true only by an Ollama URL, Bedrock token or Bedrock region edit or by
\* refresh-models, never by the mount-time fetch or a provider switch, and never
\* goes back to false; an error banner needs touched and status error.
C28_TouchedOnlyByUser == [](C28_CreatedAndBanner) /\ [][C28_TouchedStep]_vars

\* C28 witness: one provider failed untouched (no banner) and the active one
\* failed touched (banner).
C28_Witness ==
  /\ \E c \in ChatBotEnum : ErrorBannerShown(c)
  /\ \E c \in ChatBotEnum : ~modelValidation[c].touched /\ modelValidation[c].status = ERROR

\* No model-list request has been answered yet: every request issued so far is
\* still awaited.
NoResultYet == Cardinality(requests) = issued /\ \A r \in requests : r.state = "pending"

\* C29 (as claimed): a provider has a cache entry only once a fetch result for
\* it was obtained, and an entry that is the empty list means that a fetch for
\* the provider completed and returned no models.
C29_CacheTellsFetchedFromEmpty ==
  /\ NoResultYet => DOMAIN models = {}
  /\ \A c \in ChatBotEnum :
       /\ c \notin DOMAIN models => hist[c].kind # "ok"
       /\ (c \in DOMAIN models /\ models[c] = <<>> /\ hist[c].kind = "ok") => hist[c].list = <<>>

\* The step of save() an operation of the log belongs to: 1 settings, 2 agent
\* auth secrets, 3 agent-config resources, 4 redeploy; 0 for the others.
Stage(e) ==
  CASE e \in {"saveAgentSettings", "saveAgentSettings:failed"} -> 1
    [] e \in {"create secret", "save secret", "create secret:failed", "save secret:failed"} -> 2
    [] e \in {"findAll aiagentconfig", "remove aiagentconfig", "create aiagentconfig",
              "save aiagentconfig", "remove aiagentconfig:failed",
              "create aiagentconfig:failed", "save aiagentconfig:failed"} -> 3
    [] e \in {"find deployment", "save deployment", "find deployment:failed",
              "save deployment:failed"} -> 4
    [] OTHER -> 0

\* The operations of the current save(), in order.
SaveOps == IF LogHas("save") THEN SubSeq(log, LogIndex("save") + 1, Len(log)) ELSE <<>>

\* C30, state part: the operations of one save() come in the order of the
\* steps, and the redeploy's operations come only with the settings persisted.
C30_OpsInOrder ==
  LET ops == SaveOps
      staged == SelectSeq(ops, LAMBDA e : Stage(e) > 0)
  IN /\ \A i \in 1..(Len(staged) - 1) : Stage(staged[i]) <= Stage(staged[i + 1])
     /\ (staged # <<>> /\ Stage(staged[Len(staged)]) > 1) =>
          /\ ops[1] = "saveAgentSettings"
          /\ ~LogHas("saveAgentSettings:failed")
          /\ backend.saved # <<>>

\* C30, step part: each step of save() starts in the continuation of the
\* previous one.
C30_StartStep ==
  savePc'.at # savePc.at =>
    /\ savePc'.at = "saveSettings" => savePc.at = "idle" /\ pageLast'.op = "onConfirm"
    /\ savePc'.at = "secrets" =>
         savePc.at = "saveSettings" /\ backend'.saved = << savePc.payload >>
    /\ savePc'.at = "crds" => savePc.at = "secrets"
    /\ savePc'.at = "redeploy" =>
         /\ savePc.at \in {"saveSettings", "crds"}
         /\ backend'.saved # <<>>
         /\ savePc.at = "saveSettings" => backend'.saved = << savePc.payload >>

\* C30: in one save() the settings are persisted first, then the agents' auth
\* secrets, then the agent-config resources, then the redeploy, each step after
\* the previous one has ended; there is no redeploy before the settings are
\* persisted or after persisting them failed.
C30_SaveStepsInOrder == [](C30_OpsInOrder) /\ [][C30_StartStep]_vars

\* C30 witness: a save() ran all four steps.
C30_Witness ==
  /\ SaveFinished
  /\ \A n \in 1..4 : \E i \in 1..Len(SaveOps) : Stage(SaveOps[i]) = n
  /\ LogHas("save deployment")
  /\ btnCB = << TRUE >>

\* The fields of a resource's spec other than enabled.
OtherSpecFields == {"builtIn", "description", "authenticationType", "authenticationSecret"}

C31_BuiltInStep ==
  (savePc.at = "crds" /\ pageLast'.op = "SavedConfigCRDs" /\ pageLast'.outcome = "found") =>
    \A i \in 1..Len(backend.crds) :
      LET old == backend.crds[i]
          j == FindByName(backend'.crds, old.name)
      IN  (old.spec.builtIn /\ FindByName(FormCrds, old.name) # 0) =>
            /\ j # 0
            /\ \A f \in OtherSpecFields : backend'.crds[j].spec[f] = old.spec[f]

\* C31 (as claimed): saveAiAgentConfigCRDs changes only the enabled field of a
\* stored builtIn resource that is in the form; every other field of its spec
\* is after the save what it was before.
C31_BuiltInOnlyEnabledChanges == [][C31_BuiltInStep]_vars

\* The names of a list of resources.
Names(list) == { list[i].name : i \in 1..Len(list) }

\* How often an entry was added to the log by the step.
Added(entry) ==
  Cardinality({ i \in (Len(log) + 1)..Len(log') : log'[i] = entry })

\* The step is saveAiAgentConfigCRDs with findAll and every remove, create and
\* save resolved.
CrdsSavedAllOk ==
  /\ savePc.at = "crds" /\ pageLast'.op = "SavedConfigCRDs" /\ pageLast'.outcome = "found"
  /\ \A i \in (Len(log) + 1)..Len(log') : log'[i] \notin FailureEntries

C32_ReconcileStep ==
  CrdsSavedAllOk =>
    /\ Names(backend'.crds) = Names(FormCrds)
    /\ Added("remove aiagentconfig") = Cardinality(Names(backend.crds) \ Names(FormCrds))
    /\ Added("create aiagentconfig") = Cardinality(Names(FormCrds) \ Names(backend.crds))
    /\ Added("save aiagentconfig") = Cardinality(Names(FormCrds))
    /\ \A i \in 1..Len(backend'.crds) :
         backend'.crds[i].spec.authenticationType # BASIC =>
           backend'.crds[i].spec.authenticationSecret = <<>>

\* C32: when findAll and every remove, create and save succeed,
\* saveAiAgentConfigCRDs leaves in the store exactly the names of the form
\* (stored resources that are not in the form are removed, entries of the form
\* that are not stored are created, the others are saved as they are), and no
\* saved resource with an authentication type other than BASIC has an
\* authenticationSecret.
C32_StoreReconciledWithForm == [][C32_ReconcileStep]_vars

\* C32 witness: a save created a resource and removed none, every operation
\* succeeded, and a stored resource that is not BASIC has no secret although the
\* stored one had.
C32_Witness ==
  /\ pageLast.op = "SavedConfigCRDs" /\ pageLast.outcome = "found" /\ ~LogFailed
  /\ LogHas("create aiagentconfig") /\ LogHas("save aiagentconfig")
  /\ Names(backend.crds) = {"a1", "a2"}
  /\ \E i \in 1..Len(backend.crds) :
       /\ backend.crds[i].spec.builtIn
       /\ backend.crds[i].spec.authenticationType # BASIC
       /\ backend.crds[i].spec.authenticationSecret = <<>>

\* The names of the agents of the list with status active, and of the others.
ActiveSet == { agentsProp[i].name : i \in { j \in 1..Len(agentsProp) : agentsProp[j].status = "active" } }

InactiveSet == { agentsProp[i].name : i \in { j \in 1..Len(agentsProp) : agentsProp[j].status # "active" } }

C33_Selection ==
  LET sel == selectedAgentName(agentsProp, agentName)
      n == Cardinality(ActiveSet)
  IN  /\ n = 0 => sel = ADAPTIVE_MODE_ID
      /\ n = 1 => sel \in ActiveSet
      /\ n > 1 => sel = IF agentName \in ActiveSet THEN agentName ELSE ADAPTIVE_MODE_ID
      /\ sel \notin InactiveSet

C33_SelectStep ==
  selLast'.op = "select" =>
    selectEmitted' = << IF selLast'.id = ADAPTIVE_MODE_ID THEN "" ELSE selLast'.id >>

\* C33: the selected agent is the adaptive mode when no agent is active, the
\* one active agent when there is exactly one, and with several active agents
\* agentName if it names an active agent, the adaptive mode if not; it is never
\* an agent that is not active, and the choice of the adaptive mode emits
\* select with the empty string.
C33_SelectedAgent == [](C33_Selection) /\ [][C33_SelectStep]_vars

\* C33 witness: two agents are active, agentName names an agent that is not,
\* the adaptive mode is shown as selected, and its choice was emitted.
C33_Witness ==
  /\ Cardinality(ActiveSet) = 2
  /\ agentName \in InactiveSet
  /\ selectedAgentName(agentsProp, agentName) = ADAPTIVE_MODE_ID
  /\ selLast = SelStep("select", ADAPTIVE_MODE_ID)
  /\ selectEmitted = << "" >>

\* C38 (as claimed): for every list of agents and every agentName the selected
\* agent name is the name of an option, and the trigger shows that option's
\* name, not the unknown label.
C38_SelectionIsAnOption ==
  /\ \E i \in 1..Len(options(agentsProp)) :
       options(agentsProp)[i].name = selectedAgentName(agentsProp, agentName)
  /\ TriggerLabel(agentsProp, agentName) # UnknownLabel

\* C34 (as claimed): with every request answered, and once the user has made the
\* last edit, every provider a fetch was issued for ends with the status success
\* or error, and stays so.
C34_EveryFetchedProviderSettles ==
  \A c \in ChatBotEnum :
    <>[](hist[c].id = 0 \/ modelValidation[c].status \in {SUCCESS, ERROR})

C35_SignalStep ==
  last'.verrs = << FALSE >> =>
    ~RefHasError([value' EXCEPT ![ACTIVE_CHATBOT] = RefActiveChatbot(value')])

\* C35 (as claimed): when the form signals that there is no validation error,
\* the settings record the parent holds has the required credentials and a
\* model for the resolved active provider.
C35_NoErrorMeansParentRecordValid == [][C35_SignalStep]_vars

C36_NoPermissionStep ==
  ~svcGetters.canList[DEPLOYMENT] =>
    /\ svcLast'.op = "initiated" => aiServiceError' = << DeploymentNoPermission >>
    /\ (svcLast'.fired /\ aiServiceError = << DeploymentNoPermission >>) =>
         aiServiceError' = << DeploymentNoPermission >>

\* C36 (as claimed): without the permission to list deployments the error is
\* the deployment no-permission error when the initialisation has completed,
\* and no run of the watcher on the deployment's state replaces or clears it.
C36_NoPermissionErrorStays == [][C36_NoPermissionStep]_vars

\* C37 (as claimed): for the same persisted data the provider decodeLLMConfig
\* settles on is the provider getActiveChatbot resolves, whether ACTIVE_LLM
\* names a provider or is not set and one or several credentials are present.
C37_ConsoleAndFormAgreeOnProvider ==
  (/\ value[ACTIVE_CHATBOT] \in ChatBotEnum \cup {""}
   /\ \E k \in {OLLAMA_URL, GOOGLE_API_KEY, OPENAI_API_KEY, AWS_BEARER_TOKEN_BEDROCK} :
        value[k] # "") =>
    decodeActiveLLM(value, value) = getActiveChatbot(value)

\* The page has left Loading for good: isLoading is false, and the data of
\* every list permission of the permissions record is there.
LoadingLeft ==
  /\ ~isLoading /\ ~LoadingShown
  /\ Perm(permissions, "list", "canListSecrets") => aiAgentSettings # <<>>
  /\ Perm(permissions, "list", "canListAiAgentCRDS") => aiAgentConfigCRDs # <<>>

\* C39: with every lookup of the store answered, the page leaves Loading and
\* does not come back to it: isLoading is false once the deployment was looked
\* up, and the settings record and the agent-config list are non-null for the
\* list permissions held, also when their lookups fail.
C39_PageLeavesLoading == <>[]LoadingLeft

\* C39 witness: both list permissions are held, the lookups of the secret and of
\* the agent-configs failed, and the page shows its sections.
C39_Witness ==
  /\ Perm(permissions, "list", "canListSecrets") /\ Perm(permissions, "list", "canListAiAgentCRDS")
  /\ pageLast.op = "FetchedConfigCRDs" /\ pageLast.outcome = "rejects"
  /\ aiAgentSettings = << <<>> >> /\ aiAgentConfigCRDs = << <<>> >>
  /\ LoadingLeft /\ SectionsShown

C40_FetchEndStep ==
  svcLast'.op = "find configmap" =>
    /\ svcLast'.old < svcIssued =>
         llmConfig' = llmConfig /\ aiServiceError' = aiServiceError
    /\ aiServiceError = << DeploymentNotFound >> =>
         aiServiceError' = << DeploymentNotFound >>

\* C40 (as claimed): a call of fetchLLMConfigs that ends after a later change of
\* the deployment's state has started another one changes neither llmConfig nor
\* the error, and no call that ends replaces the deployment-not-found error by
\* the missing-configuration error.
C40_LatestStateChangeWins == [][C40_FetchEndStep]_vars

====
